---------------------------- MODULE Spec2Model ----------------------------
(***************************************************************************)
(* A model of translate-strings (main.ts, command-line.ts).                *)
(*                                                                         *)
(* Text is a sequence of one-character strings.  A few words that the      *)
(* program treats as a unit ("undefined", names of Object.prototype) are   *)
(* kept as one element.                                                    *)
(*                                                                         *)
(* The specifications of the module:                                       *)
(*   SpecRT    the placeholder round trip of Translate / GenerateTS        *)
(*   SpecScan  ScanSources: canonical keys and the String Table            *)
(*   SpecCalls ScanSources: tags, notes and errors of the call sites       *)
(*   SpecNotes ScanSources: the comments after a call site                 *)
(*   Spec      synchronization runs of GenerateTS and GenerateJSON         *)
(*   SpecDoc   GenerateJSON over templates with substitutions              *)
(*   SpecMain  main(): the command line, prep() and the top-level catch    *)
(*   SpecArgs  parseArgs(): switches and inputs of the command line        *)
(***************************************************************************)
EXTENDS Naturals, Integers, Sequences, FiniteSets, TLC

VARIABLES
    \* ---- round trip (SpecRT)
    rt_pc,            \* "start" | "sent" | "answered" | "done" | "off"
    rt_mode,          \* "doc" (Translate) | "ts" (the copy inside GenerateTS)
    rt_src,           \* the literal as items: text chunks and ${..} spans
    rt_text,          \* text: the literal handed to the round trip
    rt_t,             \* t: the text with sentinels, as sent to the provider
    rt_placeholders,  \* placeholders: the recorded spans, 0-based
    rt_answer,        \* the text the provider returned
    rt_shape,         \* the same as items: text chunks and sentinels
    rt_translation    \* translation: the final text

VARIABLES
    \* ---- scan (SpecScan, SpecCalls)
    sc_pc,            \* "find" | "scan" | "done" | "aborted" | "off"
    sc_json,          \* commandline.switches['json'] is set
    sc_marked,        \* the functions with a @translator jsdoc, in file order
    sc_iFn,           \* iFn
    sc_i18n,          \* i18nSourceFile, or "none"
    sc_nodes,         \* the tagged-template call sites, in visiting order
    sc_next,          \* index of the next node to visit
    sc_tracked,       \* indices of the nodes handed to track()
    sc_strings        \* strings: the String Table, in insertion order

vars_scan == << sc_pc, sc_json, sc_marked, sc_iFn, sc_i18n, sc_nodes, sc_next,
                sc_tracked, sc_strings >>

VARIABLES
    \* ---- the disk
    modules,          \* language modules <lang>.ts of the translation folder
    docs,             \* messages.json ("base") and messages.<lang>.json
    \* ---- one invocation of main()
    pc,               \* where main() stands
    cfg,              \* the command line and what prep() made of it
    sources,          \* the project's tagged-template call sites
    strings,          \* strings: the String Table of this run
    updatedFiles,     \* updatedFiles
    \* ---- locals of GenerateTS
    translationFiles, \* translationFiles: languages, in processing order
    project,          \* the in-memory source file of every language module
    fi,               \* index of the module being processed
    isModified,       \* isModified
    props,            \* props: the property names recorded for the module
    \* ---- locals of GenerateJSON
    languages,        \* languages: Map keys in insertion order
    langContent,      \* languages[l].content
    langJson,         \* languages[l].json
    orig,             \* orig
    json,             \* json of the base document
    li,               \* index into languages of the inner loop
    \* ---- shared loop state
    ki,               \* index into strings of the key being processed
    pending,          \* the translation request in flight, or NoRequest
    \* ---- the provider and the record of the run
    oracle,           \* the provider's decided answers: (text, lang, ok)
    runNo,            \* number of invocations started
    edits,            \* number of hand edits made to the disk
    pre_modules,      \* modules when the run started
    pre_docs,         \* docs when the run started
    requests,         \* translation requests issued in this run
    writes,           \* files written in this run
    appended,         \* (lang, key) entries appended to modules in this run
    failed,           \* (strategy, lang, key) requests of this run that failed
    prevWrites        \* files written in the previous run

vars_disk == << modules, docs >>

vars_main == << pc, cfg, sources, strings, updatedFiles >>

vars_ts == << translationFiles, project, fi, isModified, props >>

vars_json == << languages, langContent, langJson, orig, json, li >>

vars_loop == << ki, pending >>

vars_hist == << oracle, runNo, edits, pre_modules, pre_docs, requests,
                writes, appended, failed, prevWrites >>

vars_sync == << vars_disk, vars_main, vars_ts, vars_json, vars_loop,
                vars_hist >>

VARIABLES
    \* ---- main() and its failures (SpecMain)
    mn_pc,            \* where main() stands, or "off"
    mn_args,          \* the command line and the environment of the run
    mn_azure,         \* azure: the translator client exists
    mn_generated,     \* generated
    mn_thrown,        \* the value caught by main()'s catch, or NoThrow
    mn_errors         \* what console.error() has printed

vars_mn == << mn_pc, mn_args, mn_azure, mn_generated, mn_thrown, mn_errors >>

VARIABLES
    \* ---- parseArgs() (SpecArgs)
    pa_pc,            \* "parse" | "done" | "threw" | "off"
    pa_args,          \* args
    pa_next,          \* index of the argument the loop stands at
    pa_switches,      \* cli.switches, in insertion order
    pa_inputs         \* cli.inputs

vars_pa == << pa_pc, pa_args, pa_next, pa_switches, pa_inputs >>

not_rt == << vars_scan, vars_sync, vars_mn, vars_pa >>

vars_rt == << rt_pc, rt_mode, rt_src, rt_text, rt_t, rt_placeholders,
              rt_answer, rt_shape, rt_translation >>

not_scan == << vars_rt, vars_sync, vars_mn, vars_pa >>

not_sync == << vars_rt, vars_scan, vars_mn, vars_pa >>

not_mn == << vars_rt, vars_scan, vars_sync, vars_pa >>

not_pa == << vars_rt, vars_scan, vars_sync, vars_mn >>

vars == << vars_rt, vars_scan, vars_sync, vars_mn, vars_pa >>

\* The parts of the state a specification does not use stay at rest.
OffRT ==
    /\ rt_pc = "off" /\ rt_mode = "doc" /\ rt_src = << >> /\ rt_text = << >>
    /\ rt_t = << >> /\ rt_placeholders = << >> /\ rt_answer = << >>
    /\ rt_shape = << >> /\ rt_translation = << >>

OffScan ==
    /\ sc_pc = "off" /\ sc_json = FALSE /\ sc_nodes = << >> /\ sc_next = 1
    /\ sc_strings = << >>
    /\ sc_marked = << >> /\ sc_iFn = "i" /\ sc_i18n = "none" /\ sc_tracked = { }

NoThrow == [ isError |-> FALSE, message |-> "" ]

OffArgs ==
    /\ pa_pc = "off" /\ pa_args = << >> /\ pa_next = 1
    /\ pa_switches = << >> /\ pa_inputs = << >>

OffMain ==
    /\ mn_pc = "off" /\ mn_args = << >> /\ mn_azure = FALSE
    /\ mn_generated = FALSE /\ mn_thrown = NoThrow /\ mn_errors = << >>

OffSync ==
    /\ modules = << >> /\ docs = << >>
    /\ pc = "off" /\ cfg = << >> /\ sources = << >> /\ strings = << >>
    /\ updatedFiles = 0
    /\ translationFiles = << >> /\ project = << >> /\ fi = 0
    /\ isModified = FALSE /\ props = { }
    /\ languages = << >> /\ langContent = << >> /\ langJson = << >>
    /\ orig = << >> /\ json = << >> /\ li = 0
    /\ ki = 0 /\ pending = << >>
    /\ oracle = { } /\ runNo = 0 /\ edits = 0
    /\ pre_modules = << >> /\ pre_docs = << >> /\ requests = << >>
    /\ writes = { } /\ appended = { } /\ failed = { } /\ prevWrites = { }

-----------------------------------------------------------------------------
(* Bounds *)

MaxSpans == 10
MaxFill == 1
MaxSlots == 2
MaxNodes == 2
MaxCalls == 2
MaxArgs == 2
MaxComments == 2
MaxArgv == 2
MaxKeys == 2
MaxRuns == 2
MaxEdits == 1
MaxFail == 1

-----------------------------------------------------------------------------
(* Text helpers *)

Digits == << "0", "1", "2", "3", "4", "5", "6", "7", "8", "9" >>

IsDigit(c) == \E d \in 1..10 : Digits[d] = c

DigitVal(c) == (CHOOSE d \in 1..10 : Digits[d] = c) - 1

\* A number inside a template literal: its decimal text.
RECURSIVE Decimal(_)
Decimal(n) == IF n < 10 THEN << Digits[n + 1] >>
              ELSE Decimal(n \div 10) \o << Digits[(n % 10) + 1] >>

NaN == -1

\* The value of a run of digits read left to right.
RECURSIVE DigitsValue(_, _)
DigitsValue(s, acc) ==
    IF s = << >> \/ ~IsDigit(Head(s)) THEN acc
    ELSE DigitsValue(Tail(s), acc * 10 + DigitVal(Head(s)))

RECURSIVE SkipSpaces(_)
SkipSpaces(s) == IF s # << >> /\ Head(s) = " " THEN SkipSpaces(Tail(s)) ELSE s

\* Number.parseInt(value): leading white space is skipped, then the longest
\* prefix of digits is read; NaN when there is none.
ParseInt(value) ==
    LET s == SkipSpaces(value)
    IN IF s = << >> \/ ~IsDigit(Head(s)) THEN NaN ELSE DigitsValue(s, 0)

\* text.substr(start, length), start 0-based.
Substr(s, start, length) ==
    LET from == IF start > Len(s) THEN Len(s) ELSE start
        n == IF length < 0 THEN 0
             ELSE IF from + length > Len(s) THEN Len(s) - from ELSE length
    IN SubSeq(s, from + 1, from + n)

RECURSIVE Flatten(_)
Flatten(ss) == IF ss = << >> THEN << >> ELSE Head(ss) \o Flatten(Tail(ss))


-----------------------------------------------------------------------------
(* The placeholder round trip: Translate (document strategy) and its copy  *)
(* inside GenerateTS (module strategy).                                    *)

Sentinel(i) == << "7", "7" >> \o Decimal(i) \o << "7", "7" >>

\* The first q >= from with s[q] = "}" , or 0.
CloseAt(s, from) ==
    IF \E q \in from..Len(s) : s[q] = "}"
    THEN CHOOSE q \in from..Len(s) :
            s[q] = "}" /\ \A r \in from..(q - 1) : s[r] # "}"
    ELSE 0

\* text.replace(/(\$\{.*?\})/g, item => { placeholders[i] = item;
\*                                        return "77" + (i++) + "77"; })
\* scanning from position p with i spans recorded so far.
RECURSIVE ProtectFrom(_, _, _, _)
ProtectFrom(text, p, t, placeholders) ==
    IF p > Len(text) THEN [ t |-> t, placeholders |-> placeholders ]
    ELSE LET q == IF text[p] = "$" /\ p + 1 <= Len(text) /\ text[p + 1] = "{"
                  THEN CloseAt(text, p + 2) ELSE 0
         IN IF q # 0
            THEN ProtectFrom(text, q + 1,
                             t \o Sentinel(Len(placeholders)),
                             Append(placeholders, SubSeq(text, p, q)))
            ELSE ProtectFrom(text, p + 1, Append(t, text[p]), placeholders)

Protect(text) == ProtectFrom(text, 1, << >>, << >>)

\* The first q >= from with s[q] = s[q+1] = "7", or 0.
SevensAt(s, from) ==
    IF \E q \in from..(Len(s) - 1) : s[q] = "7" /\ s[q + 1] = "7"
    THEN CHOOSE q \in from..(Len(s) - 1) :
            /\ s[q] = "7" /\ s[q + 1] = "7"
            /\ \A r \in from..(q - 1) : ~(s[r] = "7" /\ s[r + 1] = "7")
    ELSE 0

\* placeholders[Number.parseInt(value)], as String.replace inserts it: an
\* index that holds nothing yields the text "undefined".
PlaceholderAt(placeholders, value) ==
    LET k == ParseInt(value)
    IN IF k # NaN /\ k < Len(placeholders) THEN placeholders[k + 1]
       ELSE << "undefined" >>

\* translation.replace(/77(.*?)77/g, (item, value) =>
\*                      placeholders[Number.parseInt(value)])
RECURSIVE RestoreFrom(_, _, _, _)
RestoreFrom(s, p, out, placeholders) ==
    IF p > Len(s) THEN out
    ELSE LET q == IF s[p] = "7" /\ p + 1 <= Len(s) /\ s[p + 1] = "7"
                  THEN SevensAt(s, p + 2) ELSE 0
         IN IF q # 0
            THEN RestoreFrom(s, q + 2,
                     out \o PlaceholderAt(placeholders, SubSeq(s, p + 2, q - 1)),
                     placeholders)
            ELSE RestoreFrom(s, p + 1, Append(out, s[p]), placeholders)

Restore(translation, placeholders) ==
    IF Len(placeholders) > 0
    THEN RestoreFrom(translation, 1, << >>, placeholders)
    ELSE translation

\* result[0]?.translations?.[0].text || text
AnswerOr(answer, text) == IF answer = << >> THEN text ELSE answer

\* The backtick character.
Backtick == "BQ"

\* BQ + translation.substr(1, translation.length - 2) + BQ
Requote(translation) ==
    << Backtick >> \o Substr(translation, 1, Len(translation) - 2)
                  \o << Backtick >>


\* unquote(): a text that starts and ends with a backtick loses both.
Unquote(text) ==
    IF text # << >> /\ Head(text) = Backtick /\ text[Len(text)] = Backtick
    THEN Substr(text, 1, Len(text) - 2)
    ELSE text

-----------------------------------------------------------------------------
(* SpecRT: literals with 1..MaxSpans spans through the round trip.         *)

FillAlphabet == { "a", "7" }

RECURSIVE SeqsUpTo(_, _)
SeqsUpTo(S, n) ==
    IF n = 0 THEN { << >> }
    ELSE LET shorter == SeqsUpTo(S, n - 1)
         IN shorter \cup { Append(q, x) : q \in shorter, x \in S }

Chunks == SeqsUpTo(FillAlphabet, MaxFill)

Txt(v) == [ k |-> "txt", v |-> v, i |-> 0 ]
Span(i) == [ k |-> "span", v |-> << >>, i |-> i ]

\* The i-th substitution as it stands in the literal: ${p<i>}.
SpanText(i) == << "$", "{", "p" >> \o Decimal(i) \o << "}" >>

\* chunk, span 0, chunk, span 1, ..., span n-1, chunk; the chunk at
\* position j is d, every other chunk is c.
SourceItems(n, c, j, d) ==
    [ m \in 1..(2 * n + 1) |->
        IF m % 2 = 1 THEN Txt(IF (m - 1) \div 2 = j THEN d ELSE c)
        ELSE Span((m \div 2) - 1) ]

\* The sentinels in reverse order, with the text r around each.
RewrittenItems(n, r) ==
    [ m \in 1..(2 * n + 1) |->
        IF m % 2 = 1 THEN Txt(r) ELSE Span(n - (m \div 2)) ]

ItemsText(items, spanText(_)) ==
    Flatten([ m \in DOMAIN items |->
                IF items[m].k = "txt" THEN items[m].v
                ELSE spanText(items[m].i) ])

Quoted(mode, text) ==
    IF mode = "ts" THEN << Backtick >> \o text \o << Backtick >> ELSE text

InitRT ==
    /\ OffScan /\ OffSync /\ OffMain /\ OffArgs
    /\ rt_pc = "start"
    /\ rt_mode \in { "doc", "ts" }
    /\ \E n \in 1..MaxSpans, c \in Chunks, d \in Chunks :
         \E j \in 0..n : rt_src = SourceItems(n, c, j, d)
    /\ rt_text = Quoted(rt_mode, ItemsText(rt_src, SpanText))
    /\ rt_t = << >>
    /\ rt_placeholders = << >>
    /\ rt_answer = << >>
    /\ rt_shape = << >>
    /\ rt_translation = << >>

\* The sentinels replace the spans; the text goes to the provider.
RtSend ==
    /\ rt_pc = "start"
    /\ rt_t' = Protect(rt_text).t
    /\ rt_placeholders' = Protect(rt_text).placeholders
    /\ rt_pc' = "sent"
    /\ UNCHANGED << rt_mode, rt_src, rt_text, rt_answer, rt_shape,
                    rt_translation >>
    /\ UNCHANGED not_rt

\* The provider returns its input unchanged.
RtAnswerSame ==
    /\ rt_pc = "sent"
    /\ rt_answer' = rt_t
    /\ rt_shape' = rt_src
    /\ rt_pc' = "answered"
    /\ UNCHANGED << rt_mode, rt_src, rt_text, rt_t, rt_placeholders,
                    rt_translation >>
    /\ UNCHANGED not_rt

\* The provider rewrites the text: every sentinel intact, the order
\* reversed, the text around them replaced by r.
RtAnswerRewritten ==
    /\ rt_pc = "sent"
    /\ \E r \in Chunks :
         /\ rt_shape' = RewrittenItems(Len(rt_placeholders), r)
         /\ rt_answer' = Quoted(rt_mode, ItemsText(rt_shape', Sentinel))
    /\ rt_pc' = "answered"
    /\ UNCHANGED << rt_mode, rt_src, rt_text, rt_t, rt_placeholders,
                    rt_translation >>
    /\ UNCHANGED not_rt

\* The provider fails: the catch leaves translation empty; GenerateTS then
\* falls back to the input text.
RtFail ==
    /\ rt_pc = "sent"
    /\ rt_translation' = IF rt_mode = "ts" THEN rt_text ELSE << >>
    /\ rt_pc' = "failed"
    /\ UNCHANGED << rt_mode, rt_src, rt_text, rt_t, rt_placeholders,
                    rt_answer, rt_shape >>
    /\ UNCHANGED not_rt

\* The sentinels of the answer are replaced by the recorded spans.
RtRestore ==
    /\ rt_pc = "answered"
    /\ rt_translation' =
         LET restored == Restore(AnswerOr(rt_answer, rt_text), rt_placeholders)
         IN IF rt_mode = "ts" THEN Requote(restored) ELSE restored
    /\ rt_pc' = "done"
    /\ UNCHANGED << rt_mode, rt_src, rt_text, rt_t, rt_placeholders,
                    rt_answer, rt_shape >>
    /\ UNCHANGED not_rt

NextRT == RtSend \/ RtAnswerSame \/ RtAnswerRewritten \/ RtFail \/ RtRestore

LowerCase ==
    << "a", "b", "c", "d", "e", "f", "g", "h", "i", "j", "k", "l", "m",
       "n", "o", "p", "q", "r", "s", "t", "u", "v", "w", "x", "y", "z" >>
UpperCase ==
    << "A", "B", "C", "D", "E", "F", "G", "H", "I", "J", "K", "L", "M",
       "N", "O", "P", "Q", "R", "S", "T", "U", "V", "W", "X", "Y", "Z" >>

IsLower(c) == \E n \in DOMAIN LowerCase : LowerCase[n] = c
IsUpper(c) == \E n \in DOMAIN UpperCase : UpperCase[n] = c
IsLetter(c) == IsLower(c) \/ IsUpper(c)
ToUpper(c) == UpperCase[CHOOSE n \in DOMAIN LowerCase : LowerCase[n] = c]

\* /[a-zA-Z]{2,}/.exec(key): the key holds two letters in a row.
HasWord(key) ==
    \E n \in 1..(Len(key) - 1) : IsLetter(key[n]) /\ IsLetter(key[n + 1])

RECURSIVE TrimLeft(_)
TrimLeft(s) == IF s # << >> /\ Head(s) = " " THEN TrimLeft(Tail(s)) ELSE s

RECURSIVE TrimRight(_)
TrimRight(s) ==
    IF s # << >> /\ s[Len(s)] = " " THEN TrimRight(SubSeq(s, 1, Len(s) - 1))
    ELSE s

Trim(s) == TrimRight(TrimLeft(s))

-----------------------------------------------------------------------------
(* ScanSources: canonical keys and the String Table.                       *)

\* Names every object inherits from Object.prototype: strings[k] yields a
\* value for them although the table holds no record.
ObjectPrototypeNames ==
    { << "constructor" >>, << "toString" >>, << "valueOf" >>,
      << "hasOwnProperty" >>, << "isPrototypeOf" >>,
      << "propertyIsEnumerable" >>, << "toLocaleString" >>,
      << "__proto__" >> }

HasOwn(tbl, k) == \E n \in DOMAIN tbl : tbl[n].key = k

OwnIndex(tbl, k) == CHOOSE n \in DOMAIN tbl : tbl[n].key = k

\* strings[k] as a condition: a record of the table, or an inherited value.
Truthy(tbl, k) == HasOwn(tbl, k) \/ k \in ObjectPrototypeNames

\* Map.set: the value of an existing slot is replaced in place, a new slot
\* is added at the end.
SetNote(notes, slot, text) ==
    IF \E n \in DOMAIN notes : notes[n].slot = slot
    THEN [ n \in DOMAIN notes |->
             IF notes[n].slot = slot THEN [ slot |-> slot, text |-> text ]
             ELSE notes[n] ]
    ELSE Append(notes, [ slot |-> slot, text |-> text ])

RECURSIVE SetNotes(_, _)
SetNotes(notes, more) ==
    IF more = << >> THEN notes
    ELSE SetNotes(SetNote(notes, Head(more).slot, Head(more).text), Tail(more))

\* track(key, literal, notes, params, specifiedKey).  threw: the call
\* raised (strings[k].notes is undefined for an inherited value).
Track(tbl, key, literal, notes, params, specifiedKey) ==
    LET k == Unquote(key)
    IN IF Truthy(tbl, k)
       THEN IF HasOwn(tbl, k)
            THEN [ threw |-> FALSE,
                   table |->
                     [ tbl EXCEPT ![OwnIndex(tbl, k)].notes =
                                          SetNotes(@, notes) ] ]
            ELSE [ threw |-> notes # << >>, table |-> tbl ]
       ELSE [ threw |-> FALSE,
              table |-> Append(tbl,
                            [ key |-> k, literal |-> literal,
                              params |-> params, notes |-> notes,
                              specifiedKey |-> specifiedKey ]) ]

\* template.getText() of a template without substitutions, and
\* template.getHead().getText() of one with substitutions.
HeadText(tpl) ==
    IF tpl.spans = << >> THEN << Backtick >> \o tpl.head \o << Backtick >>
    ELSE << Backtick >> \o tpl.head \o << "$", "{" >>

\* span.getChildAtIndex(1).getText(): the middle or tail of span n.
SpanText1(tpl, n) ==
    << "}" >> \o tpl.spans[n].tail
              \o (IF n = Len(tpl.spans) THEN << Backtick >> ELSE << "$", "{" >>)

\* A faulty naming: an identifier keeps its name with --json as well.
ParamNameOfSource(span, parameterNumber, asJson) ==
    IF span.isIdent THEN span.text
    ELSE << "p" >> \o Decimal(parameterNumber)

\* The parameter name of span n (parameterNumber = n - 1).
ParamName(span, parameterNumber, asJson) ==
    IF span.isIdent /\ ~asJson THEN span.text
    ELSE << "p" >> \o Decimal(parameterNumber)

\* key = key + parameterNumber + text.getText(), over the spans from n on.
RECURSIVE KeyFrom(_, _, _)
KeyFrom(tpl, n, key) ==
    IF n > Len(tpl.spans) THEN key
    ELSE KeyFrom(tpl, n + 1, key \o Decimal(n - 1) \o SpanText1(tpl, n))

\* literal = literal + name + text.getText(), over the spans from n on.
RECURSIVE LiteralFrom(_, _, _, _)
LiteralFrom(tpl, n, literal, asJson) ==
    IF n > Len(tpl.spans) THEN literal
    ELSE LiteralFrom(tpl, n + 1,
             literal \o ParamName(tpl.spans[n], n - 1, asJson) \o SpanText1(tpl, n),
             asJson)

\* parameters.push({ name, type, originalName }) for every span.
Parameters(tpl, asJson) ==
    [ n \in DOMAIN tpl.spans |->
        [ name |-> ParamName(tpl.spans[n], n - 1, asJson),
          type |-> tpl.spans[n].type,
          originalName |-> IF tpl.spans[n].isIdent THEN << >>
                           ELSE tpl.spans[n].text ] ]

\* The key handed to track() for a template.
TemplateKey(tpl) == KeyFrom(tpl, 1, HeadText(tpl))

\* The literal handed to track() for a template.
TemplateLiteral(tpl, asJson) == LiteralFrom(tpl, 1, HeadText(tpl), asJson)

\* The outcome of project.getSourceFiles().find(...): the first function
\* with the marker gives iFn and i18nSourceFile; without one iFn stays 'i'
\* and i18nSourceFile stays unset.
Designate(marked) ==
    IF marked = << >> THEN [ iFn |-> "i", i18n |-> "none" ]
    ELSE [ iFn |-> marked[1].name, i18n |-> marked[1].file ]

\* A faulty test: the declaring file is not compared.
MatchesAnyFile(tag, iFn, i18n) == tag.kind = "function" /\ tag.name = iFn

\* Node.isFunctionDeclaration(decl) && decl.getName() === iFn &&
\* (i18nSourceFile ? sourceFile === i18nSourceFile : true)
Matches(tag, iFn, i18n) ==
    /\ tag.kind = "function"
    /\ tag.name = iFn
    /\ i18n # "none" => tag.file = i18n

\* .replace(/^\/*\**/g, ''): the slashes, then the stars, at the start.
RECURSIVE DropLeading(_, _)
DropLeading(text, c) ==
    IF text # << >> /\ Head(text) = c THEN DropLeading(Tail(text), c) ELSE text

\* .replace(/\**\/*$/g, ''): the stars and, after them, the slashes at the end.
RECURSIVE DropTrailing(_, _)
DropTrailing(text, c) ==
    IF text # << >> /\ text[Len(text)] = c
    THEN DropTrailing(SubSeq(text, 1, Len(text) - 1), c)
    ELSE text

\* comment.getText() without its delimiters, trimmed.
Note(comment) ==
    Trim(DropTrailing(DropTrailing(DropLeading(DropLeading(comment, "/"), "*"),
                                   "/"), "*"))

\* \w
IsWordChar(c) == IsLetter(c) \/ IsDigit(c) \/ c = "_"

\* The length of the longest run of \w characters of text from position p.
RECURSIVE WordRun(_, _)
WordRun(text, p) ==
    IF p <= Len(text) /\ IsWordChar(text[p]) THEN 1 + WordRun(text, p + 1)
    ELSE 0

\* A faulty split: the token is looked for anywhere in the note.
SplitNoteAnywhere(note) ==
    IF \E p \in DOMAIN note : note[p] = "@" /\ WordRun(note, p + 1) > 0
    THEN LET p == CHOOSE q \in DOMAIN note :
                     /\ note[q] = "@" /\ WordRun(note, q + 1) > 0
                     /\ \A r \in 1..(q - 1) :
                            ~(note[r] = "@" /\ WordRun(note, r + 1) > 0)
         IN [ full |-> SubSeq(note, 1, p - 1),
              key |-> SubSeq(note, p, p + WordRun(note, p + 1)),
              text |-> SubSeq(note, p + WordRun(note, p + 1) + 1, Len(note)) ]
    ELSE [ full |-> note, key |-> << >>, text |-> << >> ]

\* const [full, key, text] = note.split(/^(@\w+)/); an absent element is
\* the empty text.
SplitNote(note) ==
    IF note # << >> /\ Head(note) = "@" /\ WordRun(note, 2) > 0
    THEN [ full |-> << >>,
           key |-> SubSeq(note, 1, 1 + WordRun(note, 2)),
           text |-> SubSeq(note, 2 + WordRun(note, 2), Len(note)) ]
    ELSE [ full |-> note, key |-> << >>, text |-> << >> ]

\* The loop over the trailing comments of a call site: what notes.get('full')
\* and specifiedKey are after it (full = << >>: no entry 'full').
RECURSIVE ParseComments(_, _)
ParseComments(comments, acc) ==
    IF comments = << >> THEN acc
    ELSE LET sp == SplitNote(Note(Head(comments)))
         IN ParseComments(Tail(comments),
              [ full |-> IF sp.full # << >> THEN sp.full
                         ELSE IF sp.text # << >> THEN sp.text
                         ELSE acc.full,
                specifiedKey |-> IF sp.key # << >> THEN sp.key
                                 ELSE acc.specifiedKey ])

Annotation(node) ==
    ParseComments(node.comments, [ full |-> << >>, specifiedKey |-> << >> ])

\* The notes Map of a call site: the call's own note under 'full', then
\* the note of each substitution under the parameter's name.
NodeNotes(node, asJson) ==
    SetNotes(IF Annotation(node).full = << >> THEN << >>
             ELSE << [ slot |-> << "full" >>, text |-> Annotation(node).full ] >>,
             SelectSeq([ n \in DOMAIN node.template.spans |->
                           [ slot |-> ParamName(node.template.spans[n], n - 1,
                                                asJson),
                             text |-> node.template.spans[n].comment ] ],
                       LAMBDA e : e.text # << >>))

\* The node reaches track(): its tag matches and the source model raised
\* no error on the way.
Tracked(node, iFn, i18n) == Matches(node.tag, iFn, i18n) /\ ~node.raises

\* The visitor's body for one tagged-template node: track() the template;
\* an error raised on the way is swallowed and leaves the table as it is.
VisitNode(tbl, node, asJson, iFn, i18n) ==
    IF ~Tracked(node, iFn, i18n) THEN tbl
    ELSE LET r == Track(tbl, TemplateKey(node.template),
                        TemplateLiteral(node.template, asJson),
                        NodeNotes(node, asJson),
                        Parameters(node.template, asJson),
                        Annotation(node).specifiedKey)
         IN IF r.threw THEN tbl ELSE r.table

\* The tag of a call to the translator function i of lib/i18n.ts.
TagI == [ kind |-> "function", name |-> "i", file |-> "lib" ]

HeadChunks == { << "a" >>, << "a", " " >>, << "constructor" >> }
TailChunks == { << >>, << " " >> }

\* A substitution: an identifier (x or y, of type number) or an expression.
SpanKinds ==
    { [ isIdent |-> TRUE, text |-> << "x" >>, type |-> "number" ],
      [ isIdent |-> TRUE, text |-> << "y" >>, type |-> "number" ],
      [ isIdent |-> FALSE, text |-> << "f", "(", ")" >>, type |-> "string" ] }

SpanSet == { [ isIdent |-> k.isIdent, text |-> k.text, type |-> k.type,
               tail |-> t, comment |-> << >> ] :
             k \in SpanKinds, t \in TailChunks }

RECURSIVE SeqsOfLen(_, _)
SeqsOfLen(S, n) ==
    IF n = 0 THEN { << >> }
    ELSE { Append(q, x) : q \in SeqsOfLen(S, n - 1), x \in S }

Templates ==
    { [ head |-> h, spans |-> sp ] :
        h \in HeadChunks,
        sp \in UNION { SeqsOfLen(SpanSet, n) : n \in 0..MaxSlots } }

NodeSet == { [ template |-> t, comments |-> << >>,
               tag |-> TagI, raises |-> FALSE ] : t \in Templates }

InitScan ==
    /\ OffRT /\ OffSync /\ OffMain /\ OffArgs
    /\ sc_pc = "find"
    /\ sc_json \in BOOLEAN
    /\ sc_marked = << >>
    /\ sc_iFn = "i" /\ sc_i18n = "none"
    /\ sc_nodes \in SeqsOfLen(NodeSet, MaxNodes)
    /\ sc_next = 1
    /\ sc_tracked = { }
    /\ sc_strings = << >>

\* The search for the translator function, before any node is visited.
ScanFind ==
    /\ sc_pc = "find"
    /\ sc_iFn' = Designate(sc_marked).iFn
    /\ sc_i18n' = Designate(sc_marked).i18n
    /\ sc_pc' = IF Designate(sc_marked).iFn = "" THEN "failed"
                ELSE IF sc_nodes = << >> THEN "done" ELSE "scan"
    /\ UNCHANGED << sc_json, sc_marked, sc_nodes, sc_next, sc_tracked,
                    sc_strings >>
    /\ UNCHANGED not_scan

\* An error raised in the callback propagates and ends the traversal.
NextAfterUncaught(threw, last) ==
    IF threw THEN "aborted" ELSE IF last THEN "done" ELSE "scan"

\* try { ... } catch { }: the traversal goes on to the next node.
NextAfter(threw, last) == IF last THEN "done" ELSE "scan"

\* The callback raises on this node: in the source model, or in track().
Raises(tbl, node, asJson, iFn, i18n) ==
    \/ node.raises
    \/ /\ Tracked(node, iFn, i18n)
       /\ Track(tbl, TemplateKey(node.template),
                TemplateLiteral(node.template, asJson), NodeNotes(node, asJson),
                Parameters(node.template, asJson),
                Annotation(node).specifiedKey).threw

\* forEachDescendant reaches the next tagged-template node.
ScanVisit ==
    /\ sc_pc = "scan"
    /\ sc_next <= Len(sc_nodes)
    /\ sc_strings' = VisitNode(sc_strings, sc_nodes[sc_next], sc_json, sc_iFn,
                               sc_i18n)
    /\ sc_tracked' = IF Tracked(sc_nodes[sc_next], sc_iFn, sc_i18n)
                     THEN sc_tracked \cup { sc_next } ELSE sc_tracked
    /\ sc_next' = sc_next + 1
    /\ sc_pc' = NextAfter(Raises(sc_strings, sc_nodes[sc_next], sc_json, sc_iFn,
                                 sc_i18n),
                          sc_next = Len(sc_nodes))
    /\ UNCHANGED << sc_json, sc_marked, sc_iFn, sc_i18n, sc_nodes >>
    /\ UNCHANGED not_scan

NextScan == ScanFind \/ ScanVisit

\* ---- call sites with tags, notes and errors (SpecCalls)

\* The @translator functions of a project, in the order of its files; a
\* function without a name (a default export) has the name "".
MarkedChoices ==
    { << >>,
      << [ name |-> "i", file |-> "lib" ] >>,
      << [ name |-> "t", file |-> "lib" ] >>,
      << [ name |-> "i", file |-> "app" ], [ name |-> "i", file |-> "lib" ] >>,
      << [ name |-> "", file |-> "lib" ] >> }

\* The template a${x}, with a trailing comment after the substitution.
OneSlot(comment) ==
    [ head |-> << "a" >>,
      spans |-> << [ isIdent |-> TRUE, text |-> << "x" >>, type |-> "number",
                     tail |-> << >>, comment |-> comment ] >> ]

NoSlot(h) == [ head |-> h, spans |-> << >> ]

SlotComments == { << >>, << "n", "1" >>, << "n", "2" >> }
\* The block comment with the text note.
Block(note) == << "/", "*", " " >> \o note \o << " ", "*", "/" >>

\* The trailing comments of a call site: none, f1 or f2.
FullComments ==
    { << >>, << Block(<< "f", "1" >>) >>, << Block(<< "f", "2" >>) >> }

\* What the tag of a call site resolves to.
Tags ==
    { [ kind |-> "function", name |-> "i", file |-> "app" ],
      [ kind |-> "function", name |-> "t", file |-> "lib" ],
      [ kind |-> "variable", name |-> "i", file |-> "lib" ],
      [ kind |-> "none", name |-> "", file |-> "" ] }

NoteCalls ==
    { [ template |-> OneSlot(c), comments |-> f,
        tag |-> TagI, raises |-> FALSE ] :
      c \in SlotComments, f \in FullComments }

TagCalls ==
    { [ template |-> OneSlot(<< >>), comments |-> << >>,
        tag |-> t, raises |-> FALSE ] : t \in Tags }

\* Call sites on which the callback raises: the source model fails on the
\* node, or track() fails on strings['constructor'].notes.
RaiseCalls ==
    { [ template |-> OneSlot(<< "n", "1" >>), comments |-> << >>,
        tag |-> TagI, raises |-> TRUE ],
      [ template |-> NoSlot(<< "constructor" >>),
        comments |-> << Block(<< "f", "1" >>) >>,
        tag |-> TagI, raises |-> FALSE ] }

\* A call site with a key of its own.
PlainCalls ==
    { [ template |-> NoSlot(<< "b" >>), comments |-> << >>,
        tag |-> TagI, raises |-> FALSE ] }

CallSet == NoteCalls \cup TagCalls \cup RaiseCalls \cup PlainCalls

InitCalls ==
    /\ OffRT
    /\ OffSync
    /\ OffMain /\ OffArgs
    /\ sc_pc = "find"
    /\ sc_json \in BOOLEAN
    /\ sc_marked \in MarkedChoices
    /\ sc_iFn = "i" /\ sc_i18n = "none"
    /\ sc_nodes \in UNION { SeqsOfLen(CallSet, n) : n \in 1..MaxCalls }
    /\ sc_next = 1
    /\ sc_tracked = { }
    /\ sc_strings = << >>


\* ---- the comments after a call site (SpecNotes)

\* What an annotation says: nothing, a note, a key, a key and a note, a
\* key with digits, an @ that is no key, a note that mentions a key, and a
\* key that ends at a hyphen.
NoteBodies ==
    { << >>, << "n" >>, << "@", "k" >>, << "@", "k", " ", "n" >>,
      << "@", "k", "_", "1", " ", "n" >>, << "@", " ", "n" >>,
      << "n", " ", "@", "k" >>, << "@", "k", "-", "n" >>, << "@" >> }

\* The same text as /* text */, /** text */, // text and /*text*/.
RawComments ==
    UNION { { Block(b), << "/", "*", "*", " " >> \o b \o << " ", "*", "/" >>,
              << "/", "/", " " >> \o b,
              << "/", "*" >> \o b \o << "*", "/" >> } : b \in NoteBodies }

InitNotes ==
    /\ OffRT
    /\ OffSync
    /\ OffMain /\ OffArgs
    /\ sc_pc = "find"
    /\ sc_json \in BOOLEAN
    /\ sc_marked = << >>
    /\ sc_iFn = "i" /\ sc_i18n = "none"
    /\ \E c \in SeqsUpTo(RawComments, MaxComments) :
         sc_nodes = << [ template |-> OneSlot(<< >>), comments |-> c,
                         tag |-> TagI, raises |-> FALSE ] >>
    /\ sc_next = 1
    /\ sc_tracked = { }
    /\ sc_strings = << >>

-----------------------------------------------------------------------------
(* Catalog files and the texts written to them.                            *)

DoubleQuoteChar == "DQ"
Backslash == "BS"
Apostrophe == "'"

\* JSON.stringify escapes the double quote and the backslash; singleQuote()
\* then escapes the apostrophe.
EscapeChar(c) ==
    IF c = DoubleQuoteChar THEN << Backslash, DoubleQuoteChar >>
    ELSE IF c = Backslash THEN << Backslash, Backslash >>
    ELSE IF c = Apostrophe THEN << Backslash, Apostrophe >>
    ELSE << c >>

Escaped(text) == Flatten([ n \in DOMAIN text |-> EscapeChar(text[n]) ])

\* singleQuote(text): the text as a single-quoted string literal.
SingleQuote(text) == << Apostrophe >> \o Escaped(text) \o << Apostrophe >>

\* The same key written as a double-quoted property name.
DoubleQuote(text) ==
    << DoubleQuoteChar >> \o Escaped(text) \o << DoubleQuoteChar >>

\* .replace(/ [a-z]/g, ([a, b]) => b.toUpperCase())
RECURSIVE CamelFrom(_, _, _)
CamelFrom(s, p, out) ==
    IF p > Len(s) THEN out
    ELSE IF s[p] = " " /\ p + 1 <= Len(s) /\ IsLower(s[p + 1])
         THEN CamelFrom(s, p + 2, Append(out, ToUpper(s[p + 1])))
         ELSE CamelFrom(s, p + 1, Append(out, s[p]))

\* .replace(/[^a-zA-Z$]/g, '')
StripNonIdentifier(s) == SelectSeq(s, LAMBDA c : IsLetter(c) \/ c = "$")

\* The document identifier of a key.
DocName(key) == StripNonIdentifier(CamelFrom(Trim(key), 1, << >>))

\* A language module.  Every property of the mapping literal has the text
\* of its name (quotes included) and a body; formatted: the file is as
\* formatText leaves it.
NoModule ==
    [ exists |-> FALSE, hasMap |-> FALSE, props |-> << >>, formatted |-> FALSE ]

\* project.createSourceFile(path, ...): the empty mapping literal.
NewModule ==
    [ exists |-> TRUE, hasMap |-> TRUE, props |-> << >>, formatted |-> FALSE ]

\* A document.  style "two" is what JSON.stringify(json, null, 2) writes.
NoDoc == [ exists |-> FALSE, valid |-> FALSE, entries |-> << >>, style |-> "none" ]

\* JSON.stringify(json, null, 2)
Stringify(entries) ==
    [ exists |-> TRUE, valid |-> TRUE, entries |-> entries, style |-> "two" ]

\* JSON.parse(content), or {} when the file is absent or does not parse.
Parse(content) ==
    IF content.exists /\ content.valid THEN content.entries ELSE << >>

HasEntry(entries, id) == \E n \in DOMAIN entries : entries[n].id = id

EntryText(entries, id) ==
    entries[CHOOSE n \in DOMAIN entries : entries[n].id = id].text

\* json[name] as a condition: an own entry with a non-empty text, or a
\* value inherited from Object.prototype.
JsonTruthy(entries, id) ==
    \/ HasEntry(entries, id) /\ EntryText(entries, id) # << >>
    \/ ~HasEntry(entries, id) /\ id \in ObjectPrototypeNames

\* json[name] !== literal
JsonDiffers(entries, id, literal) ==
    ~(HasEntry(entries, id) /\ EntryText(entries, id) = literal)

\* json[name] = text: an own entry keeps its place, a new one goes last.
JsonSet(entries, id, text) ==
    IF HasEntry(entries, id)
    THEN [ n \in DOMAIN entries |->
             IF entries[n].id = id THEN [ id |-> id, text |-> text ]
             ELSE entries[n] ]
    ELSE Append(entries, [ id |-> id, text |-> text ])

\* A faulty comparison: of the parsed entries instead of the bytes.
ContentDiffersLogically(newContent, content) ==
    ~(content.exists /\ content.valid /\ newContent.entries = content.entries)

\* newContent !== orig   (newContent !== content)
ContentDiffers(newContent, content) == newContent # content

-----------------------------------------------------------------------------
(* The Translation Provider (Azure Translator).                            *)

Lang == { "de", "fr", "xx" }

\* knownLanguages: the codes the provider lists as supported.
KnownLanguages == { "de", "fr" }

\* The order in which the project lists the files of the folder.
LangOrder == << "de", "fr", "xx" >>

\* getLanguageCode(lang)
GetLanguageCode(lang) == IF lang \in KnownLanguages THEN lang ELSE "none"

TranslatedLetter(lang) == IF lang = "de" THEN "D" ELSE "F"

\* What the provider returns for a text: every letter translated, every
\* other character kept.
ProviderText(text, lang) ==
    [ n \in DOMAIN text |->
        IF IsLetter(text[n]) THEN TranslatedLetter(lang) ELSE text[n] ]

NoRequest == [ strategy |-> "none", key |-> << >>, lang |-> "none",
               text |-> << >>, id |-> << >>, state |-> "none" ]

\* The promise of a request settles: state is "resolved" or "failed".
Settle(reqs, req, state) ==
    [ n \in DOMAIN reqs |->
        IF reqs[n] = req /\ \A m \in 1..(n - 1) : reqs[m] # req
        THEN [ reqs[n] EXCEPT !.state = state ]
        ELSE reqs[n] ]

\* A call that is not awaited: the caller runs on.
AwaitNot(suspended, running) == running

\* await: the caller is suspended until the promise settles.
Await(suspended, running) == suspended

Decided(text, lang) == \E o \in oracle : o.text = text /\ o.lang = lang

\* The answers the provider may give to a request: the one it gave before
\* for the same text and language; a failure for an unsupported language.
MayAnswer(text, lang, ok) ==
    IF lang \notin KnownLanguages THEN ~ok
    ELSE IF Decided(text, lang)
         THEN [ text |-> text, lang |-> lang, ok |-> ok ] \in oracle
         ELSE ok \/ Cardinality({ o \in oracle : ~o.ok }) < MaxFail

Remember(text, lang, ok) ==
    IF lang \in KnownLanguages
    THEN oracle \cup { [ text |-> text, lang |-> lang, ok |-> ok ] }
    ELSE oracle

-----------------------------------------------------------------------------
(* main(): one invocation = one synchronization run.                       *)

DocIds == Lang \cup { "base" }

Distinct(q) == \A a, b \in DOMAIN q : a # b => q[a] # q[b]

SyncHeads == { << "h", "i" >>, << "h", "i", "!" >>, << "!" >> }

\* The call site i`hi!` is followed by the comment /* @k */.
CommentsOf(h) ==
    IF h = << "h", "i", "!" >> THEN << Block(<< "@", "k" >>) >> ELSE << >>

SyncNodes ==
    { [ template |-> [ head |-> h, spans |-> << >> ],
        comments |-> CommentsOf(h), tag |-> TagI, raises |-> FALSE ] :
      h \in SyncHeads }

\* The call sites of the project: up to MaxKeys different templates.
SourceChoices == { q \in SeqsUpTo(SyncNodes, MaxKeys) : Distinct(q) }

AddLanguageChoices ==
    { << >>, << "de", "fr" >>, << "xx", "de" >> }

\* ts, json: the switches --ts and --json; addLanguages: --add-language;
\* azure: prep() ran and made the translator client.
Configs ==
    [ ts : BOOLEAN, json : BOOLEAN, addLanguages : AddLanguageChoices,
      azure : BOOLEAN ]

\* ScanSources(): every node visited in order.
RECURSIVE ScanAll(_, _, _)
ScanAll(tbl, nodes, asJson) ==
    IF nodes = << >> THEN tbl
    ELSE ScanAll(VisitNode(tbl, Head(nodes), asJson, Designate(<< >>).iFn,
                           Designate(<< >>).i18n),
                 Tail(nodes), asJson)

HandBody == [ comment |-> "hand", ret |-> << "h", "a", "n", "d" >> ]

HandModule(name) ==
    [ exists |-> TRUE, hasMap |-> TRUE,
      props |-> << [ name |-> name, body |-> HandBody ] >>,
      formatted |-> FALSE ]

\* Module files a user may have put in the folder before the first run.
ModuleEdits ==
    { NewModule,
      [ exists |-> TRUE, hasMap |-> FALSE, props |-> << >>, formatted |-> FALSE ],
      HandModule(SingleQuote(<< "h", "i" >>)),
      HandModule(DoubleQuote(<< "h", "i" >>)) }

\* de.ts is any of them; xx.ts, a file of a language the provider does not
\* know, has the empty map.
ModuleEditsOf(l) == IF l = "de" THEN ModuleEdits ELSE { NewModule }

HandDoc(id, text, style) ==
    [ exists |-> TRUE, valid |-> TRUE,
      entries |-> << [ id |-> id, text |-> text ] >>, style |-> style ]

\* Document files a user may have put in the folder before the first run.
DocEdits ==
    { HandDoc(<< "h", "i" >>, << "h", "i" >>, "two"),
      HandDoc(<< "h", "i" >>, << "h", "i" >>, "other"),
      HandDoc(<< "h", "i" >>, << >>, "two"),
      HandDoc(<< "o", "l", "d" >>, << "h", "i" >>, "two"),
      [ exists |-> TRUE, valid |-> FALSE, entries |-> << >>, style |-> "other" ] }

\* messages.de.json is any of them; messages.json is one that parses and
\* has an entry with a text.
DocEditsOf(d) ==
    IF d = "de" THEN DocEdits
    ELSE { c \in DocEdits : c.valid /\ c.entries[1].text # << >> }

InitSync ==
    /\ OffRT /\ OffScan /\ OffMain /\ OffArgs
    /\ modules = [ l \in Lang |-> NoModule ]
    /\ docs = [ d \in DocIds |-> NoDoc ]
    /\ pc = "idle"
    /\ cfg \in Configs
    /\ sources \in SourceChoices
    /\ strings = << >>
    /\ updatedFiles = 0
    /\ translationFiles = << >> /\ project = modules /\ fi = 0
    /\ isModified = FALSE /\ props = { }
    /\ languages = << >> /\ langContent = docs /\ langJson = [ l \in Lang |-> << >> ]
    /\ orig = NoDoc /\ json = << >> /\ li = 0
    /\ ki = 0 /\ pending = NoRequest
    /\ oracle = { } /\ runNo = 0 /\ edits = 0
    /\ pre_modules = modules /\ pre_docs = docs /\ requests = << >>
    /\ writes = { } /\ appended = { } /\ failed = { } /\ prevWrites = { }

\* Before the first run of --ts the user puts a module file into the folder.
EditModule ==
    /\ pc = "idle" /\ runNo = 0 /\ edits < MaxEdits
    /\ cfg.ts
    /\ \E l \in { "de", "xx" } :
         /\ ~modules[l].exists
         /\ \E m \in ModuleEditsOf(l) : modules' = [ modules EXCEPT ![l] = m ]
    /\ edits' = edits + 1
    /\ UNCHANGED << docs, vars_main, vars_ts, vars_json, vars_loop >>
    /\ UNCHANGED << oracle, runNo, pre_modules, pre_docs, requests, writes,
                    appended, failed, prevWrites >>
    /\ UNCHANGED not_sync

\* Before the first run of --json the user puts a document file into the
\* folder.
EditDoc ==
    /\ pc = "idle" /\ runNo = 0 /\ edits < MaxEdits
    /\ cfg.json
    /\ \E d \in { "base", "de" } :
         /\ ~docs[d].exists
         /\ \E c \in DocEditsOf(d) : docs' = [ docs EXCEPT ![d] = c ]
    /\ edits' = edits + 1
    /\ UNCHANGED << modules, vars_main, vars_ts, vars_json, vars_loop >>
    /\ UNCHANGED << oracle, runNo, pre_modules, pre_docs, requests, writes,
                    appended, failed, prevWrites >>
    /\ UNCHANGED not_sync

\* Where main() goes after ScanSources(): --ts without a translator client
\* throws ('No key specified.'), which ends the run.
AfterScan ==
    IF cfg.ts THEN (IF cfg.azure THEN "ts_begin" ELSE "done")
    ELSE IF cfg.json THEN "json_begin" ELSE "done"

\* main() up to the choice of the strategy.
StartRun ==
    /\ pc \in { "idle", "done" } /\ runNo < MaxRuns
    /\ runNo' = runNo + 1
    /\ strings' = ScanAll(<< >>, sources, cfg.json)
    /\ updatedFiles' = 0
    /\ pc' = AfterScan
    /\ translationFiles' = << >> /\ project' = modules /\ fi' = 0
    /\ isModified' = FALSE /\ props' = { }
    /\ languages' = << >> /\ langContent' = docs
    /\ langJson' = [ l \in Lang |-> << >> ]
    /\ orig' = NoDoc /\ json' = << >> /\ li' = 0
    /\ ki' = 0 /\ pending' = NoRequest
    /\ pre_modules' = modules /\ pre_docs' = docs
    /\ requests' = << >> /\ prevWrites' = writes /\ writes' = { }
    /\ appended' = { } /\ failed' = { }
    /\ UNCHANGED << modules, docs, cfg, sources, oracle, edits >>
    /\ UNCHANGED not_sync

\* What no step of a run changes.
vars_fixed ==
    << cfg, sources, strings, runNo, edits, pre_modules, pre_docs, prevWrites >>

-----------------------------------------------------------------------------
(* GenerateTS(): the module strategy.                                      *)

InSeq(x, q) == \E n \in DOMAIN q : q[n] = x

\* The loop over commandline.addLanguages: an unsupported language is
\* skipped, so is one that has a file; otherwise the file is created.
RECURSIVE AddLanguages(_, _, _, _)
AddLanguages(list, files, proj, azure) ==
    IF list = << >> THEN [ files |-> files, project |-> proj ]
    ELSE LET lang == Head(list)
         IN IF azure /\ GetLanguageCode(lang) = "none"
            THEN AddLanguages(Tail(list), files, proj, azure)
            ELSE IF proj[lang].exists
                 THEN AddLanguages(Tail(list), files, proj, azure)
                 ELSE AddLanguages(Tail(list), Append(files, lang),
                                   [ proj EXCEPT ![lang] = NewModule ], azure)

\* A faulty enumeration: no property is recorded.
PropNamesNone(file) == { }

\* prop.getName() of every property of the mapping literal.
PropNames(file) == { file.props[n].name : n \in DOMAIN file.props }

\* text = pp.length === 0 ? name : fn.literal
TsText(entry) ==
    IF entry.params = << >> THEN SingleQuote(entry.key) ELSE entry.literal

\* The translation of text built from the provider's answer.
TsTranslation(text, lang) ==
    LET pr == Protect(text)
        answer == AnswerOr(ProviderText(pr.t, lang), text)
    IN IF Len(pr.placeholders) > 0
       THEN Requote(Restore(answer, pr.placeholders))
       ELSE SingleQuote(Substr(answer, 1, Len(answer) - 2))

\* The function body written for a key: the comment above the return
\* statement and the returned expression.
TsBody(text, lang, ok) ==
    IF ok THEN [ comment |-> "auto", ret |-> TsTranslation(text, lang) ]
    ELSE [ comment |-> "todo", ret |-> text ]

\* A faulty addProperty: the new property takes the place of the last one.
AddPropertyReplacing(entries, name, body) ==
    IF entries = << >> THEN << [ name |-> name, body |-> body ] >>
    ELSE [ entries EXCEPT ![Len(entries)] = [ name |-> name, body |-> body ] ]

\* initializer.addProperty({ name, initializer })
AddProperty(entries, name, body) ==
    Append(entries, [ name |-> name, body |-> body ])

\* A faulty test: every module is saved.
ShouldSaveAlways(modified) == TRUE

\* if (isModified)
ShouldSave(modified) == modified

\* lang.formatText({ indentSize: 2 })
FormatText(file) == [ file EXCEPT !.formatted = TRUE ]

\* The language of the module being processed.
TsLang == translationFiles[fi]

\* The table record being processed.
Entry == strings[ki]

TsBegin ==
    /\ pc = "ts_begin"
    /\ LET r == AddLanguages(cfg.addLanguages,
                             SelectSeq(LangOrder, LAMBDA l : modules[l].exists),
                             modules, cfg.azure)
       IN /\ translationFiles' = r.files
          /\ project' = r.project
    /\ fi' = 1
    /\ pc' = "ts_file"
    /\ UNCHANGED << modules, docs, updatedFiles, isModified, props >>
    /\ UNCHANGED << vars_json, vars_loop, vars_fixed >>
    /\ UNCHANGED << oracle, requests, writes, appended, failed >>
    /\ UNCHANGED not_sync

\* The module has the mapping literal: record the properties it has.
TsFileOpen ==
    /\ pc = "ts_file" /\ fi <= Len(translationFiles)
    /\ project[TsLang].hasMap
    /\ isModified' = FALSE
    /\ props' = PropNames(project[TsLang])
    /\ ki' = 1
    /\ pc' = "ts_key"
    /\ UNCHANGED << modules, docs, updatedFiles, translationFiles, project, fi >>
    /\ UNCHANGED << vars_json, pending, vars_fixed >>
    /\ UNCHANGED << oracle, requests, writes, appended, failed >>
    /\ UNCHANGED not_sync

\* The module declares no map: nothing is done with it.
TsFileNoMap ==
    /\ pc = "ts_file" /\ fi <= Len(translationFiles)
    /\ ~project[TsLang].hasMap
    /\ isModified' = FALSE
    /\ fi' = fi + 1
    /\ UNCHANGED << modules, docs, pc, updatedFiles, translationFiles, project,
                    props >>
    /\ UNCHANGED << vars_json, vars_loop, vars_fixed >>
    /\ UNCHANGED << oracle, requests, writes, appended, failed >>
    /\ UNCHANGED not_sync

\* props[name] !== undefined: the key is skipped.
TsKeyPresent ==
    /\ pc = "ts_key" /\ ki <= Len(strings)
    /\ SingleQuote(Entry.key) \in props
    /\ ki' = ki + 1
    /\ UNCHANGED << vars_disk, pc, updatedFiles, vars_ts, vars_json, pending,
                    vars_fixed >>
    /\ UNCHANGED << oracle, requests, writes, appended, failed >>
    /\ UNCHANGED not_sync

\* props[name] === undefined: the text goes to the provider.
TsKeyRequest ==
    /\ pc = "ts_key" /\ ki <= Len(strings)
    /\ SingleQuote(Entry.key) \notin props
    /\ pending' = [ strategy |-> "ts", key |-> Entry.key, lang |-> TsLang,
                    text |-> Protect(TsText(Entry)).t,
                    id |-> SingleQuote(Entry.key), state |-> "sent" ]
    /\ requests' = Append(requests, pending')
    /\ pc' = Await("ts_wait", "ts_key")
    /\ UNCHANGED << vars_disk, updatedFiles, vars_ts, vars_json, ki, vars_fixed >>
    /\ UNCHANGED << oracle, writes, appended, failed >>
    /\ UNCHANGED not_sync

\* The rest of the loop body once the provider has answered or failed.
TsAppend(ok) ==
    /\ MayAnswer(pending.text, pending.lang, ok)
    /\ oracle' = Remember(pending.text, pending.lang, ok)
    /\ project' = [ project EXCEPT ![TsLang].props =
                      AddProperty(@, SingleQuote(Entry.key),
                                  TsBody(TsText(Entry), TsLang, ok)) ]
    /\ isModified' = TRUE
    /\ appended' = appended \cup { << TsLang, Entry.key >> }
    /\ failed' = IF ok THEN failed
                 ELSE failed \cup { << "ts", TsLang, Entry.key >> }
    /\ pending' = NoRequest
    /\ ki' = ki + 1
    /\ pc' = "ts_key"
    /\ UNCHANGED << vars_disk, updatedFiles, translationFiles, fi, props >>
    /\ requests' = Settle(requests, pending,
                           IF ok THEN "resolved" ELSE "failed")
    /\ UNCHANGED << vars_json, vars_fixed, writes >>
    /\ UNCHANGED not_sync

\* The provider answers.
TsAnswer == pc = "ts_wait" /\ TsAppend(TRUE)

\* The provider fails: the catch leaves translation empty.
TsFail == pc = "ts_wait" /\ TsAppend(FALSE)

\* All keys seen and the file was touched: format and save.
TsFileSave ==
    /\ pc = "ts_key" /\ ki > Len(strings)
    /\ ShouldSave(isModified)
    /\ project' = [ project EXCEPT ![TsLang] = FormatText(@) ]
    /\ modules' = [ modules EXCEPT ![TsLang] = FormatText(project[TsLang]) ]
    /\ updatedFiles' = updatedFiles + 1
    /\ writes' = writes \cup { << "module", TsLang >> }
    /\ fi' = fi + 1
    /\ pc' = "ts_file"
    /\ UNCHANGED << docs, translationFiles, isModified, props >>
    /\ UNCHANGED << vars_json, vars_loop, vars_fixed >>
    /\ UNCHANGED << oracle, requests, appended, failed >>
    /\ UNCHANGED not_sync

\* All keys seen and nothing was added: the file is left alone.
TsFileKeep ==
    /\ pc = "ts_key" /\ ki > Len(strings)
    /\ ~ShouldSave(isModified)
    /\ fi' = fi + 1
    /\ pc' = "ts_file"
    /\ UNCHANGED << vars_disk, updatedFiles, translationFiles, project,
                    isModified, props >>
    /\ UNCHANGED << vars_json, vars_loop, vars_fixed >>
    /\ UNCHANGED << oracle, requests, writes, appended, failed >>
    /\ UNCHANGED not_sync

\* All modules seen: the summary is printed and main() goes on.
TsEnd ==
    /\ pc = "ts_file" /\ fi > Len(translationFiles)
    /\ pc' = IF cfg.json THEN "json_begin" ELSE "done"
    /\ UNCHANGED << vars_disk, updatedFiles, vars_ts, vars_json, vars_loop,
                    vars_fixed >>
    /\ UNCHANGED << oracle, requests, writes, appended, failed >>
    /\ UNCHANGED not_sync

-----------------------------------------------------------------------------
(* GenerateJSON(): the document strategy.                                  *)

\* The keys of the languages Map, in insertion order.
RECURSIVE MapKeys(_, _)
MapKeys(list, out) ==
    IF list = << >> THEN out
    ELSE MapKeys(Tail(list),
                 IF InSeq(Head(list), out) THEN out ELSE Append(out, Head(list)))

\* The language of the inner loop.
JsonLang == languages[li]

\* name: the document identifier of the key being processed.
Name == DocName(Entry.key)

\* literal = unquote(entry.literal)
Literal == Unquote(Entry.literal)

\* Translate(text, language) when the provider answers.
Translated(text, lang) ==
    LET pr == Protect(text)
    IN Restore(AnswerOr(ProviderText(pr.t, lang), text), pr.placeholders)

\* The documents written at the end: those whose new serialization is
\* not the content read at the start.
Rewritten ==
    { d \in DocIds :
        \/ d = "base" /\ ContentDiffers(Stringify(json), orig)
        \/ /\ d # "base" /\ InSeq(d, languages)
           /\ ContentDiffers(Stringify(langJson[d]), langContent[d]) }

\* The files of the requested languages and the base file are read.
JsonBegin ==
    /\ pc = "json_begin"
    /\ languages' = MapKeys(cfg.addLanguages, << >>)
    /\ langContent' = docs
    /\ langJson' = [ l \in Lang |-> Parse(docs[l]) ]
    /\ orig' = docs["base"]
    /\ json' = << >>
    /\ ki' = 1
    /\ li' = 0
    /\ pc' = "json_key"
    /\ UNCHANGED << vars_disk, updatedFiles, vars_ts, pending, vars_fixed >>
    /\ UNCHANGED << oracle, requests, writes, appended, failed >>
    /\ UNCHANGED not_sync

\* A key without a word of two letters is skipped.
JsonKeySkip ==
    /\ pc = "json_key" /\ ki <= Len(strings)
    /\ ~HasWord(Entry.key)
    /\ ki' = ki + 1
    /\ UNCHANGED << vars_disk, pc, updatedFiles, vars_ts, vars_json, pending,
                    vars_fixed >>
    /\ UNCHANGED << oracle, requests, writes, appended, failed >>
    /\ UNCHANGED not_sync

\* A faulty read: the unquoted literal is stored back into the record.
ReadEntryUnquoting(tbl, k) == [ tbl EXCEPT ![k].literal = Unquote(@) ]

\* const entry = strings[key]; const literal = unquote(entry.literal): the
\* record is read, the unquoted literal is a local of the loop body.
ReadEntry(tbl, k) == tbl

\* if (json[name] !== literal): the base entry is set unless the
\* identifier is taken, and the languages are gone through.
JsonKeyBase ==
    /\ pc = "json_key" /\ ki <= Len(strings)
    /\ HasWord(Entry.key)
    /\ IF JsonDiffers(json, Name, Literal)
       THEN /\ json' = IF JsonTruthy(json, Name) THEN json
                       ELSE JsonSet(json, Name, Literal)
            /\ li' = 1
            /\ pc' = "json_lang"
            /\ ki' = ki
       ELSE /\ ki' = ki + 1
            /\ UNCHANGED << json, li, pc >>
    /\ strings' = ReadEntry(strings, ki)
    /\ UNCHANGED << vars_disk, updatedFiles, vars_ts, languages, langContent,
                    langJson, orig, pending >>
    /\ UNCHANGED << cfg, sources, runNo, edits, pre_modules, pre_docs,
                    prevWrites >>
    /\ UNCHANGED << oracle, requests, writes, appended, failed >>
    /\ UNCHANGED not_sync

\* if (!json[name]) is false: the language has the identifier.
JsonLangPresent ==
    /\ pc = "json_lang" /\ li <= Len(languages)
    /\ JsonTruthy(langJson[JsonLang], Name)
    /\ li' = li + 1
    /\ UNCHANGED << vars_disk, pc, updatedFiles, vars_ts, languages,
                    langContent, langJson, orig, json, vars_loop, vars_fixed >>
    /\ UNCHANGED << oracle, requests, writes, appended, failed >>
    /\ UNCHANGED not_sync

\* Translate() without a client: azure.translator raises inside the try,
\* the empty translation is returned and nothing is set.
JsonLangNoClient ==
    /\ pc = "json_lang" /\ li <= Len(languages)
    /\ ~JsonTruthy(langJson[JsonLang], Name)
    /\ ~cfg.azure
    /\ li' = li + 1
    /\ UNCHANGED << vars_disk, pc, updatedFiles, vars_ts, languages,
                    langContent, langJson, orig, json, vars_loop, vars_fixed >>
    /\ UNCHANGED << oracle, requests, writes, appended, failed >>
    /\ UNCHANGED not_sync

\* Translate(): the protected literal goes to the provider.
JsonLangRequest ==
    /\ pc = "json_lang" /\ li <= Len(languages)
    /\ ~JsonTruthy(langJson[JsonLang], Name)
    /\ cfg.azure
    /\ pending' = [ strategy |-> "json", key |-> Entry.key, lang |-> JsonLang,
                    text |-> Protect(Literal).t, id |-> Name,
                    state |-> "sent" ]
    /\ requests' = Append(requests, pending')
    /\ pc' = Await("json_wait", "json_lang")
    /\ UNCHANGED << vars_disk, updatedFiles, vars_ts, vars_json, ki, vars_fixed >>
    /\ UNCHANGED << oracle, writes, appended, failed >>
    /\ UNCHANGED not_sync

\* The provider answers: if (translated) json[name] = translated.
JsonAnswer ==
    /\ pc = "json_wait"
    /\ MayAnswer(pending.text, pending.lang, TRUE)
    /\ oracle' = Remember(pending.text, pending.lang, TRUE)
    /\ LET translated == Translated(Literal, JsonLang)
       IN langJson' = IF translated # << >>
                      THEN [ langJson EXCEPT ![JsonLang] =
                               JsonSet(@, Name, translated) ]
                      ELSE langJson
    /\ pending' = NoRequest
    /\ li' = li + 1
    /\ pc' = "json_lang"
    /\ UNCHANGED << vars_disk, updatedFiles, vars_ts, languages, langContent,
                    orig, json, ki, vars_fixed >>
    /\ requests' = Settle(requests, pending, "resolved")
    /\ UNCHANGED << writes, appended, failed >>
    /\ UNCHANGED not_sync

\* The provider fails: Translate() returns the empty translation.
JsonFail ==
    /\ pc = "json_wait"
    /\ MayAnswer(pending.text, pending.lang, FALSE)
    /\ oracle' = Remember(pending.text, pending.lang, FALSE)
    /\ failed' = failed \cup { << "json", JsonLang, Entry.key >> }
    /\ pending' = NoRequest
    /\ li' = li + 1
    /\ pc' = "json_lang"
    /\ UNCHANGED << vars_disk, updatedFiles, vars_ts, languages, langContent,
                    langJson, orig, json, ki, vars_fixed >>
    /\ requests' = Settle(requests, pending, "failed")
    /\ UNCHANGED << writes, appended >>
    /\ UNCHANGED not_sync

\* All languages seen for the key.
JsonLangEnd ==
    /\ pc = "json_lang" /\ li > Len(languages)
    /\ ki' = ki + 1
    /\ pc' = "json_key"
    /\ UNCHANGED << vars_disk, updatedFiles, vars_ts, vars_json, pending,
                    vars_fixed >>
    /\ UNCHANGED << oracle, requests, writes, appended, failed >>
    /\ UNCHANGED not_sync

\* All keys seen: every document whose serialization differs is written.
JsonWrite ==
    /\ pc = "json_key" /\ ki > Len(strings)
    /\ docs' = [ d \in DocIds |->
                   IF d \in Rewritten
                   THEN Stringify(IF d = "base" THEN json ELSE langJson[d])
                   ELSE docs[d] ]
    /\ writes' = writes \cup { << "doc", d >> : d \in Rewritten }
    /\ pc' = "done"
    /\ UNCHANGED << modules, updatedFiles, vars_ts, vars_json, vars_loop,
                    vars_fixed >>
    /\ UNCHANGED << oracle, requests, appended, failed >>
    /\ UNCHANGED not_sync

NextSync ==
    \/ EditModule \/ EditDoc \/ StartRun
    \/ TsBegin \/ TsFileOpen \/ TsFileNoMap \/ TsKeyPresent \/ TsKeyRequest
    \/ TsAnswer \/ TsFail \/ TsFileSave \/ TsFileKeep \/ TsEnd
    \/ JsonBegin \/ JsonKeySkip \/ JsonKeyBase \/ JsonLangPresent
    \/ JsonLangNoClient \/ JsonLangRequest \/ JsonAnswer \/ JsonFail
    \/ JsonLangEnd \/ JsonWrite

\* ---- the document strategy over templates with substitutions (SpecDoc)

\* A substitution of a template of the project.
Ident(name) ==
    [ isIdent |-> TRUE, text |-> name, type |-> "number", tail |-> << >>,
      comment |-> << >> ]

Expr(text) ==
    [ isIdent |-> FALSE, text |-> text, type |-> "string", tail |-> << >>,
      comment |-> << >> ]

Call(tpl) ==
    [ template |-> tpl, comments |-> << >>, tag |-> TagI,
      raises |-> FALSE ]

\* i`Total: ${count}`
TotalCount ==
    Call([ head |-> << "T", "o", "t", "a", "l", ":", " " >>,
           spans |-> << Ident(<< "c", "o", "u", "n", "t" >>) >> ])

\* i`Total: ${n + 1}`, i`Total ${count}`, i`total count`, i`!` and
\* i`${a} of ${b}`
DocNodes ==
    { TotalCount,
      Call([ head |-> << "T", "o", "t", "a", "l", ":", " " >>,
             spans |-> << Expr(<< "n", " ", "+", " ", "1" >>) >> ]),
      Call([ head |-> << "T", "o", "t", "a", "l", " " >>,
             spans |-> << Ident(<< "c", "o", "u", "n", "t" >>) >> ]),
      Call(NoSlot(<< "t", "o", "t", "a", "l", " ", "c", "o", "u", "n", "t" >>)),
      Call(NoSlot(<< "!" >>)),
      Call([ head |-> << >>,
             spans |-> << [ Ident(<< "a" >>) EXCEPT !.tail = << " ", "o", "f", " " >> ],
                          Ident(<< "b" >>) >> ]) }

DocSourceChoices == { q \in SeqsUpTo(DocNodes, MaxKeys) : Distinct(q) }

\* --json with or without a key, and with or without --add-language=de.
DocConfigs ==
    [ ts : { FALSE }, json : { TRUE }, addLanguages : { << >>, << "de" >> },
      azure : BOOLEAN ]

InitDoc ==
    /\ OffRT /\ OffScan /\ OffMain /\ OffArgs
    /\ modules = [ l \in Lang |-> NoModule ]
    /\ docs = [ d \in DocIds |-> NoDoc ]
    /\ pc = "idle"
    /\ cfg \in DocConfigs
    /\ sources \in DocSourceChoices
    /\ strings = << >>
    /\ updatedFiles = 0
    /\ translationFiles = << >> /\ project = modules /\ fi = 0
    /\ isModified = FALSE /\ props = { }
    /\ languages = << >> /\ langContent = docs /\ langJson = [ l \in Lang |-> << >> ]
    /\ orig = NoDoc /\ json = << >> /\ li = 0
    /\ ki = 0 /\ pending = NoRequest
    /\ oracle = { } /\ runNo = 0 /\ edits = 0
    /\ pre_modules = modules /\ pre_docs = docs /\ requests = << >>
    /\ writes = { } /\ appended = { } /\ failed = { } /\ prevWrites = { }

NextDoc ==
    \/ StartRun
    \/ JsonBegin \/ JsonKeySkip \/ JsonKeyBase \/ JsonLangPresent
    \/ JsonLangNoClient \/ JsonLangRequest \/ JsonAnswer \/ JsonFail
    \/ JsonLangEnd \/ JsonWrite

-----------------------------------------------------------------------------
(* main(): the command line, prep() and the top-level catch *)

\* onlyOne(values, errorMessage) for a switch or the inputs given n times.
OnlyOne(n) == IF n = 0 THEN "undefined" ELSE IF n = 1 THEN "value" ELSE "throw"

\* An Error object with a message; fail() and strict.ok() raise an
\* AssertionError, JSON.parse a SyntaxError: all of them are Errors.
ErrorOf(message) == [ isError |-> TRUE, message |-> message ]

\* reject('language information download error') rejects with a string.
StringOf(message) == [ isError |-> FALSE, message |-> message ]

\* get(url): the answer has status 200 and a body, or another status, or
\* the request itself fails.
Downloads == { "ok", "garbled", "status", "error" }

\* What get() rejects with, or NoThrow when it resolves.
Get(download) ==
    IF download = "status" THEN StringOf("language information download error")
    ELSE IF download = "error" THEN ErrorOf("request failed")
    ELSE NoThrow

\* What prep() throws, or NoThrow when it returns.
Prep(args) ==
    IF Get(args.download) # NoThrow THEN Get(args.download)
    ELSE IF args.download = "garbled" THEN ErrorOf("Unexpected token")
    ELSE IF OnlyOne(args.keys) = "throw"
         THEN ErrorOf("--key specified more than once")
    ELSE IF OnlyOne(args.jsons) = "throw"
         THEN ErrorOf("specify --json:<name> only once!")
    ELSE NoThrow

\* What root = commandline.folder, strict.ok(await isDirectory(root)) and
\* commandline.output throw, or NoThrow.
Folder(args) ==
    IF OnlyOne(args.inputs) = "throw" THEN ErrorOf("multiple locations specified.")
    ELSE IF OnlyOne(args.inputs) = "undefined"
         THEN ErrorOf("Must specify a project folder to work on.")
    ELSE IF ~args.isDirectory THEN ErrorOf("should be a project folder")
    ELSE IF OnlyOne(args.outputs) = "throw"
         THEN ErrorOf("multiple output folders specified.")
    ELSE NoThrow

\* if (e instanceof Error) console.error(`Error: ${e.message}\n${stack}`)
Report(e, debug) ==
    IF e.isError THEN << [ message |-> e.message, stack |-> debug ] >>
    ELSE << >>

ArgSets ==
    [ noTranslate : BOOLEAN, keys : 0..MaxArgs, envKey : BOOLEAN,
      jsons : 0..MaxArgs, outputs : 0..MaxArgs, inputs : 0..MaxArgs,
      isDirectory : BOOLEAN, download : Downloads, scanFails : BOOLEAN,
      ts : BOOLEAN, debug : BOOLEAN ]

InitMain ==
    /\ OffRT /\ OffScan /\ OffSync /\ OffArgs
    /\ mn_pc = "start"
    /\ mn_args \in ArgSets
    /\ mn_azure = FALSE
    /\ mn_generated = FALSE
    /\ mn_thrown = NoThrow
    /\ mn_errors = << >>

\* header(), and the choice whether prep() is called.
MainStart ==
    /\ mn_pc = "start"
    /\ mn_pc' = IF mn_args.noTranslate THEN "folder" ELSE "prep"
    /\ UNCHANGED << mn_args, mn_azure, mn_generated, mn_thrown, mn_errors >>
    /\ UNCHANGED not_mn

\* await prep()
MainPrep ==
    /\ mn_pc = "prep"
    /\ mn_thrown' = Prep(mn_args)
    /\ mn_pc' = IF Prep(mn_args) # NoThrow THEN "caught" ELSE "folder"
    /\ mn_azure' = ( /\ Get(mn_args.download) = NoThrow
                     /\ mn_args.download = "ok"
                     /\ OnlyOne(mn_args.keys) # "throw"
                     /\ (OnlyOne(mn_args.keys) = "value" \/ mn_args.envKey) )
    /\ UNCHANGED << mn_args, mn_generated, mn_errors >>
    /\ UNCHANGED not_mn

\* The project folder, the output folder and the project.
MainFolder ==
    /\ mn_pc = "folder"
    /\ mn_thrown' = Folder(mn_args)
    /\ mn_pc' = IF Folder(mn_args) # NoThrow THEN "caught" ELSE "scan"
    /\ UNCHANGED << mn_args, mn_azure, mn_generated, mn_errors >>
    /\ UNCHANGED not_mn

\* await ScanSources(): fail() on a @translator function without a name.
MainScan ==
    /\ mn_pc = "scan"
    /\ mn_thrown' = IF mn_args.scanFails
                    THEN ErrorOf("Can not get function name of @translator function")
                    ELSE NoThrow
    /\ mn_pc' = IF mn_args.scanFails THEN "caught" ELSE "ts"
    /\ UNCHANGED << mn_args, mn_azure, mn_generated, mn_errors >>
    /\ UNCHANGED not_mn

\* if (commandline.switches['ts']) ...
MainTs ==
    /\ mn_pc = "ts"
    /\ mn_thrown' = IF mn_args.ts /\ ~mn_azure THEN ErrorOf("No key specified.")
                    ELSE NoThrow
    /\ mn_pc' = IF mn_args.ts /\ ~mn_azure THEN "caught" ELSE "json"
    /\ mn_generated' = (mn_args.ts /\ mn_azure)
    /\ UNCHANGED << mn_args, mn_azure, mn_errors >>
    /\ UNCHANGED not_mn

\* if (commandline.switches['json']) ...; if (!generated) console.error(...)
MainJson ==
    /\ mn_pc = "json"
    /\ mn_generated' = (mn_generated \/ mn_args.jsons > 0)
    /\ mn_errors' = IF mn_generated \/ mn_args.jsons > 0 THEN mn_errors
                    ELSE Append(mn_errors,
                                [ message |->
                                    "Specify either --ts, --json to generate files",
                                  stack |-> FALSE ])
    /\ mn_pc' = "end"
    /\ UNCHANGED << mn_args, mn_azure, mn_thrown >>
    /\ UNCHANGED not_mn

\* catch (e) { ... }
MainCatch ==
    /\ mn_pc = "caught"
    /\ mn_errors' = mn_errors \o Report(mn_thrown, mn_args.debug)
    /\ mn_pc' = "end"
    /\ UNCHANGED << mn_args, mn_azure, mn_generated, mn_thrown >>
    /\ UNCHANGED not_mn

NextMain ==
    \/ MainStart
    \/ MainPrep
    \/ MainFolder
    \/ MainScan
    \/ MainTs
    \/ MainJson
    \/ MainCatch


-----------------------------------------------------------------------------
(* parseArgs(): switches and inputs of the command line *)

\* An absent value (--name, --name=) is undefined.
Undefined == << "undefined" >>

\* The length of the longest prefix of text without = and :  ([^=:]+).
RECURSIVE NameRun(_, _)
NameRun(text, p) ==
    IF p <= Len(text) /\ text[p] \notin { "=", ":" } THEN 1 + NameRun(text, p + 1)
    ELSE 0

\* /^--([^=:]+)[=:]?(.+)?$/.exec(each) || []: name is << >> without a match.
MatchArg(arg) ==
    IF Len(arg) >= 3 /\ arg[1] = "-" /\ arg[2] = "-" /\ NameRun(arg, 3) > 0
    THEN LET n == NameRun(arg, 3)
             rest == SubSeq(arg, 3 + n + 1, Len(arg))
         IN [ name |-> SubSeq(arg, 3, 2 + n),
              value |-> IF rest = << >> THEN Undefined ELSE rest ]
    ELSE [ name |-> << >>, value |-> Undefined ]

HasSwitch(switches, name) == \E n \in DOMAIN switches : switches[n].name = name

\* cli.switches[name] of a switch that was given.
SwitchValues(switches, name) ==
    switches[CHOOSE n \in DOMAIN switches : switches[n].name = name].values

\* cli.switches[name].push(value), after cli.switches[name] was set to []
\* if it was undefined.
PushSwitch(switches, name, value) ==
    IF HasSwitch(switches, name)
    THEN [ n \in DOMAIN switches |->
             IF switches[n].name = name
             THEN [ name |-> name, values |-> Append(switches[n].values, value) ]
             ELSE switches[n] ]
    ELSE Append(switches, [ name |-> name, values |-> << value >> ])

\* cli.switches[name] is neither undefined nor an array: a value inherited
\* from Object.prototype, which has no push.
PushThrows(switches, name) ==
    ~HasSwitch(switches, name) /\ name \in ObjectPrototypeNames

\* switch(name, errorMessage)
Switch(switches, name) ==
    IF ~HasSwitch(switches, name) THEN [ kind |-> "undefined", value |-> Undefined ]
    ELSE IF OnlyOne(Len(SwitchValues(switches, name))) = "value"
         THEN [ kind |-> "value", value |-> SwitchValues(switches, name)[1] ]
         ELSE [ kind |-> "throw", value |-> Undefined ]

\* The arguments of a command line.
ArgChoices ==
    { << "-", "-", "a" >>, << "-", "-", "a", "=", "v" >>,
      << "-", "-", "a", ":", "v" >>, << "-", "-", "a", "=" >>,
      << "-", "-", "a", "=", "v", "=", "w" >>, << "-", "-", "b" >>,
      << "x" >>, << "-", "a" >>, << "-", "-" >>, << "-", "-", "=", "v" >>,
      << "-", "-", "constructor" >> }

InitArgs ==
    /\ OffRT /\ OffScan /\ OffSync /\ OffMain
    /\ pa_pc = "parse"
    /\ pa_args \in SeqsUpTo(ArgChoices, MaxArgv)
    /\ pa_next = 1
    /\ pa_switches = << >>
    /\ pa_inputs = << >>

\* if (name) { ...push(value); continue }
ArgSwitch ==
    /\ pa_pc = "parse" /\ pa_next <= Len(pa_args)
    /\ MatchArg(pa_args[pa_next]).name # << >>
    /\ LET m == MatchArg(pa_args[pa_next])
       IN IF PushThrows(pa_switches, m.name)
          THEN pa_pc' = "threw" /\ UNCHANGED << pa_switches, pa_next >>
          ELSE /\ pa_switches' = PushSwitch(pa_switches, m.name, m.value)
               /\ pa_next' = pa_next + 1
               /\ pa_pc' = "parse"
    /\ UNCHANGED << pa_args, pa_inputs >>
    /\ UNCHANGED not_pa

\* cli.inputs.push(each)
ArgInput ==
    /\ pa_pc = "parse" /\ pa_next <= Len(pa_args)
    /\ MatchArg(pa_args[pa_next]).name = << >>
    /\ pa_inputs' = Append(pa_inputs, pa_args[pa_next])
    /\ pa_next' = pa_next + 1
    /\ UNCHANGED << pa_pc, pa_args, pa_switches >>
    /\ UNCHANGED not_pa

\* return cli
ArgsEnd ==
    /\ pa_pc = "parse" /\ pa_next > Len(pa_args)
    /\ pa_pc' = "done"
    /\ UNCHANGED << pa_args, pa_next, pa_switches, pa_inputs >>
    /\ UNCHANGED not_pa

NextArgs == ArgSwitch \/ ArgInput \/ ArgsEnd

-----------------------------------------------------------------------------
(* Specifications *)

SpecRT == InitRT /\ [][NextRT]_vars

SpecScan == InitScan /\ [][NextScan]_vars

SpecCalls == InitCalls /\ [][NextScan]_vars

SpecNotes == InitNotes /\ [][NextScan]_vars

SpecDoc == InitDoc /\ [][NextDoc]_vars

SpecMain == InitMain /\ [][NextMain]_vars

SpecArgs == InitArgs /\ [][NextArgs]_vars

Spec == InitSync /\ [][NextSync]_vars

-----------------------------------------------------------------------------
(* Round-trip claims *)

\* C5: with the provider returning its input unchanged, the round trip of a
\* literal with 1..MaxSpans spans yields the literal exactly.
C5_RoundTripExact ==
    (rt_pc = "done" /\ rt_answer = rt_t) => rt_translation = rt_text

\* C6: when the returned text holds every sentinel intact, each sentinel
\* is replaced by the span recorded at its ordinal, and nothing else (no
\* sentinel, no "undefined") stands in its place.
C6_RestoreByOrdinal ==
    rt_pc = "done" =>
        rt_translation = Quoted(rt_mode, ItemsText(rt_shape, SpanText))

-----------------------------------------------------------------------------
(* Scan claims *)

\* The key the claim describes: the head text, then for every slot its
\* decimal ordinal (as ${n}) and the literal chunk after it.
RECURSIVE SkeletonKeyFrom(_, _)
SkeletonKeyFrom(tpl, n) ==
    IF n > Len(tpl.spans) THEN << >>
    ELSE << "$", "{" >> \o Decimal(n - 1) \o << "}" >> \o tpl.spans[n].tail
         \o SkeletonKeyFrom(tpl, n + 1)

SkeletonKey(tpl) == tpl.head \o SkeletonKeyFrom(tpl, 1)

\* The literal text outside the slots.
Skeleton(tpl) ==
    << tpl.head, [ n \in DOMAIN tpl.spans |-> tpl.spans[n].tail ] >>

CanonicalKey(tpl) == Unquote(TemplateKey(tpl))

\* C7: the canonical key is head + (ordinal + chunk) per slot; templates
\* with the same literal skeleton share a key; templates whose skeletons
\* differ have different keys and both are records of the String Table.
C7_CanonicalKeyStable ==
    sc_pc = "done" =>
        \A a, b \in DOMAIN sc_nodes :
            LET ta == sc_nodes[a].template
                tb == sc_nodes[b].template
            IN /\ CanonicalKey(ta) = SkeletonKey(ta)
               /\ Skeleton(ta) = Skeleton(tb) => CanonicalKey(ta) = CanonicalKey(tb)
               /\ Skeleton(ta) # Skeleton(tb) =>
                    /\ CanonicalKey(ta) # CanonicalKey(tb)
                    /\ HasOwn(sc_strings, CanonicalKey(ta))
                    /\ HasOwn(sc_strings, CanonicalKey(tb))

-----------------------------------------------------------------------------
(* Claims about the synchronization runs (Spec).                           *)

IsPrefix(a, b) == Len(a) <= Len(b) /\ SubSeq(b, 1, Len(a)) = a

\* The module's mapping literal has a property whose name denotes the key.
ModuleHasKey(file, key) ==
    \E n \in DOMAIN file.props :
        file.props[n].name \in { SingleQuote(key), DoubleQuote(key) }

\* GenerateJSON() ran to its end in the run that has just finished.
JsonRan == pc = "done" /\ cfg.json /\ (cfg.ts => cfg.azure)

\* GenerateTS() ran to its end in the run that has just finished.
TsRan == pc = "done" /\ cfg.ts /\ cfg.azure

\* C1: every entry a language module holds when a run starts is still
\* there, at the same place and with the same name and body, at every
\* point of the run and after it; the run only adds entries after them.
C1_ModuleEntriesKept ==
    \A l \in Lang :
        pre_modules[l].exists =>
            /\ modules[l].exists
            /\ modules[l].hasMap = pre_modules[l].hasMap
            /\ IsPrefix(pre_modules[l].props, modules[l].props)

\* A run has added an entry to a module that held a hand-made entry, and
\* saved it.
C1_Witness ==
    /\ pc = "done"
    /\ \E l \in Lang :
         /\ pre_modules[l].props # << >>
         /\ pre_modules[l].props[1].body = HandBody
         /\ << "module", l >> \in writes
         /\ Len(modules[l].props) > Len(pre_modules[l].props)

\* C2: a run that follows a run with the same String Table, the same
\* languages and the same provider answers writes no catalog file.
C2_SecondRunWritesNothing == runNo >= 2 => writes = { }

\* The second run is over; the first wrote a module and a document.
C2_Witness ==
    /\ runNo = 2 /\ pc = "done"
    /\ \E l \in Lang, d \in DocIds :
         << "module", l >> \in prevWrites /\ << "doc", d >> \in prevWrites

\* C3: a request is issued for (key, language) exactly when the key is in
\* the String Table and the language's catalog had no entry for it when
\* the run started; never for a key that has an entry, and once per pair.
C3_RequestsExactlyMissing ==
    /\ \A n \in DOMAIN requests :
         LET r == requests[n]
         IN /\ HasOwn(strings, r.key)
            /\ r.strategy = "ts" => ~ModuleHasKey(pre_modules[r.lang], r.key)
            /\ r.strategy = "json" => ~HasEntry(Parse(pre_docs[r.lang]), r.id)
            /\ \A m \in DOMAIN requests :
                 ( /\ requests[m].strategy = r.strategy
                   /\ requests[m].lang = r.lang
                   /\ requests[m].id = r.id ) => m = n
    /\ TsRan =>
         \A f \in DOMAIN translationFiles, k \in DOMAIN strings :
            LET l == translationFiles[f]
            IN ( project[l].hasMap /\ ~ModuleHasKey(pre_modules[l], strings[k].key) )
               => \E n \in DOMAIN requests :
                     /\ requests[n].strategy = "ts"
                     /\ requests[n].lang = l
                     /\ requests[n].key = strings[k].key
    /\ ( JsonRan /\ cfg.azure ) =>
         \A f \in DOMAIN languages, k \in DOMAIN strings :
            LET l == languages[f]
            IN ( /\ HasWord(strings[k].key)
                 /\ ~HasEntry(Parse(pre_docs[l]), DocName(strings[k].key)) )
               => \E n \in DOMAIN requests :
                     /\ requests[n].strategy = "json"
                     /\ requests[n].lang = l
                     /\ requests[n].id = DocName(strings[k].key)

\* C4: when the provider fails for key K and language L the run goes on
\* to its end, the catalog of L has an entry for K, and every other entry
\* the run made is the one the provider's answer gives.
C4_FailureStillYieldsEntry ==
    pc = "done" =>
        /\ \A f \in failed :
             \/ f[1] = "ts" /\ ModuleHasKey(modules[f[2]], f[3])
             \/ f[1] = "json" /\ HasEntry(Parse(docs[f[2]]), DocName(f[3]))
        /\ \A n \in DOMAIN requests :
             LET r == requests[n]
             IN ( r.strategy = "ts" /\ << "ts", r.lang, r.key >> \notin failed )
                => \E q \in DOMAIN modules[r.lang].props :
                      /\ modules[r.lang].props[q].name = r.id
                      /\ modules[r.lang].props[q].body.comment = "auto"

\* C8: a module is formatted and saved in a run exactly when the run
\* appended an entry to it; a module with nothing appended stays as it was.
C8_SavedIffAppended ==
    \A l \in Lang :
        /\ << "module", l >> \in writes =>
              /\ \E a \in appended : a[1] = l
              /\ modules[l].formatted
        /\ ( /\ \E a \in appended : a[1] = l
             /\ ~( pc \in { "ts_key", "ts_wait" } /\ TsLang = l ) )
           => << "module", l >> \in writes
        /\ ( runNo > 0 /\ << "module", l >> \notin writes )
           => modules[l] = pre_modules[l]

\* A run has saved one module and gone through another without saving it.
C8_Witness ==
    /\ pc = "done"
    /\ \E a, b \in Lang :
         /\ << "module", a >> \in writes
         /\ InSeq(b, translationFiles) /\ project[b].hasMap
         /\ << "module", b >> \notin writes

C10_DocEntriesKept ==
    JsonRan =>
        \A d \in DocIds :
            ( ( d = "base" \/ InSeq(d, languages) ) /\ pre_docs[d].valid ) =>
                \A n \in DOMAIN pre_docs[d].entries :
                    LET e == pre_docs[d].entries[n]
                    IN /\ HasEntry(Parse(docs[d]), e.id)
                       /\ EntryText(Parse(docs[d]), e.id) = e.text

\* C11: the requests of a run are strictly sequential: every request but
\* the last issued has resolved or failed, so at most one is outstanding
\* and a request is issued only after the one before it has settled.
C11_RequestsSequential ==
    /\ \A n \in DOMAIN requests :
         n < Len(requests) => requests[n].state \in { "resolved", "failed" }
    /\ pending # NoRequest =>
         /\ requests # << >>
         /\ requests[Len(requests)] = pending
    /\ pending = NoRequest =>
         \A n \in DOMAIN requests : requests[n].state # "sent"

\* A request is outstanding after an earlier one failed and another one
\* resolved.
C11_Witness ==
    /\ Len(requests) >= 3
    /\ requests[Len(requests)].state = "sent"
    /\ \E a, b \in DOMAIN requests :
         requests[a].state = "failed" /\ requests[b].state = "resolved"

\* C12: a language the provider does not list is skipped, whether it comes
\* from --add-language or from an existing catalog file: no request is
\* issued with its code and no catalog of it is written, and every
\* supported language requested is synchronized in the same run.
C12_UnsupportedSkipped ==
    /\ \A n \in DOMAIN requests : requests[n].lang \in KnownLanguages
    /\ pc = "done" =>
         \A l \in Lang \ KnownLanguages :
            << "module", l >> \notin writes /\ << "doc", l >> \notin writes
    /\ TsRan =>
         \A l \in KnownLanguages, k \in DOMAIN strings :
            ( InSeq(l, cfg.addLanguages) /\ project[l].hasMap )
            => ModuleHasKey(modules[l], strings[k].key)
    /\ JsonRan =>
         \A l \in KnownLanguages : InSeq(l, cfg.addLanguages) => docs[l].exists

\* C13: without a provider (--no-translate, or no key) the module strategy
\* runs to its end, and every language module has, for every key of the
\* String Table it lacked, an entry annotated to-translate that returns
\* the original text.
C13_NoProviderStillAppends ==
    ( pc = "done" /\ cfg.ts /\ ~cfg.azure ) =>
        \A l \in Lang, k \in DOMAIN strings :
            ( ( pre_modules[l].exists /\ pre_modules[l].hasMap )
              \/ InSeq(l, cfg.addLanguages) )
            => \/ ModuleHasKey(pre_modules[l], strings[k].key)
               \/ \E q \in DOMAIN modules[l].props :
                     /\ modules[l].props[q].name = SingleQuote(strings[k].key)
                     /\ modules[l].props[q].body =
                           [ comment |-> "todo", ret |-> TsText(strings[k]) ]

\* ---- ScanSources: which call sites are recorded

\* The translator function a call site has to resolve to: the first
\* function with the marker, or any function declaration named i.
Designated(tag) ==
    IF sc_marked = << >> THEN tag.kind = "function" /\ tag.name = "i"
    ELSE tag = [ kind |-> "function", name |-> sc_marked[1].name,
                 file |-> sc_marked[1].file ]

\* The visited call sites with the canonical key k.
SitesOf(k) ==
    { n \in 1..(sc_next - 1) : Unquote(TemplateKey(sc_nodes[n].template)) = k }

\* C14 (as claimed): without a @translator function every call site that is
\* processed without an error has a record in the String Table, whatever
\* its tag resolves to.
C14_FallbackRecordsEverySite ==
    (sc_pc = "done" /\ sc_marked = << >>) =>
        \A n \in DOMAIN sc_nodes :
            (/\ ~sc_nodes[n].raises
             /\ Unquote(TemplateKey(sc_nodes[n].template))
                    \notin ObjectPrototypeNames)
            => HasOwn(sc_strings, Unquote(TemplateKey(sc_nodes[n].template)))

\* C14 (amended): a record of the String Table comes only from a call
\* site whose tag resolves to the designated function: a function
\* declaration named i of any file when no function carries the marker,
\* else the first marked function, by name and file; the designation is
\* made before the first node is visited and stays as it is.
C14_OnlyDesignatedRecorded ==
    /\ \A r \in DOMAIN sc_strings :
          \E n \in SitesOf(sc_strings[r].key) : Designated(sc_nodes[n].tag)
    /\ \A n \in sc_tracked : Designated(sc_nodes[n].tag)
    /\ sc_pc \in { "scan", "done" } =>
          /\ sc_iFn = Designate(sc_marked).iFn
          /\ sc_i18n = Designate(sc_marked).i18n
    /\ sc_pc = "find" => sc_next = 1 /\ sc_strings = << >>

\* Both cases in one scan: with a marked function i of lib, a call of it
\* is recorded and a call of i of app is passed over.
C14_Witness ==
    /\ sc_pc = "done"
    /\ sc_marked # << >>
    /\ Len(sc_strings) = 1
    /\ sc_tracked = { 1 }
    /\ Len(sc_nodes) = 2
    /\ sc_nodes[2].tag.kind = "function"
    /\ sc_nodes[2].tag.name = sc_iFn
    /\ sc_nodes[2].tag.file # sc_i18n

\* ---- track(): notes of several call sites with one key

\* The slots a notes Map has an entry for, and the text under a slot.
NoteSlots(notes) == { notes[n].slot : n \in DOMAIN notes }

NoteText(notes, slot) ==
    notes[CHOOSE n \in DOMAIN notes : notes[n].slot = slot].text

\* The call sites handed to track() so far that have the key k.
Occurrences(k) == { n \in sc_tracked : n \in SitesOf(k) }

\* C15: a record's notes are the union of the notes of all call sites with
\* its key, and under a slot annotated by several of them it keeps the
\* note of the earliest.
C15_EarliestNoteKept ==
    \A r \in DOMAIN sc_strings :
        LET occ == Occurrences(sc_strings[r].key)
            NotesAt(n) == NodeNotes(sc_nodes[n], sc_json)
        IN /\ NoteSlots(sc_strings[r].notes)
                = UNION { NoteSlots(NotesAt(n)) : n \in occ }
           /\ \A slot \in NoteSlots(sc_strings[r].notes) :
                LET first == CHOOSE n \in occ :
                                 /\ slot \in NoteSlots(NotesAt(n))
                                 /\ \A m \in occ :
                                        slot \in NoteSlots(NotesAt(m)) => n <= m
                IN NoteText(sc_strings[r].notes, slot)
                      = NoteText(NotesAt(first), slot)

\* ---- ScanSources: an error at one node

\* C19: when the callback raises on a node, the String Table is left as it
\* was (no record added, none changed), the traversal goes on with the next
\* node, and a scan that has started visiting ends with every node
\* visited.
C19_NodeErrorIsolated ==
    /\ [](sc_pc # "aborted")
    /\ [](sc_pc = "done" => sc_next = Len(sc_nodes) + 1)
    /\ [][(/\ sc_pc = "scan"
           /\ Raises(sc_strings, sc_nodes[sc_next], sc_json, sc_iFn, sc_i18n))
          => /\ sc_strings' = sc_strings
             /\ sc_next' = sc_next + 1
             /\ sc_pc' = IF sc_next = Len(sc_nodes) THEN "done" ELSE "scan"]_vars

\* The callback raised on the first node, and the second node has been
\* visited and recorded.
C19_Witness ==
    /\ sc_pc = "done"
    /\ Len(sc_nodes) = 2
    /\ Raises(<< >>, sc_nodes[1], sc_json, sc_iFn, sc_i18n)
    /\ sc_next = 3
    /\ 2 \in sc_tracked
    /\ Len(sc_strings) = 1
    /\ sc_strings[1].key = Unquote(TemplateKey(sc_nodes[2].template))

\* ---- explicit keys in the catalogs

\* An explicit key as a catalog identity: the annotation, with or without
\* its leading @.
ExplicitIds(specifiedKey) == { specifiedKey, Tail(specifiedKey) }

\* C16: the entry written for a call site that carries an @word annotation
\* is keyed by that explicit key, in the base document and in every
\* language module the run brings up to date.
C16_ExplicitKeyPinsEntry ==
    /\ JsonRan =>
         \A k \in DOMAIN strings :
            ( strings[k].specifiedKey # << >> /\ HasWord(strings[k].key) )
            => \E id \in ExplicitIds(strings[k].specifiedKey) :
                  HasEntry(Parse(docs["base"]), id)
    /\ TsRan =>
         \A l \in KnownLanguages, k \in DOMAIN strings :
            ( /\ strings[k].specifiedKey # << >>
              /\ InSeq(l, cfg.addLanguages)
              /\ project[l].hasMap )
            => \E id \in ExplicitIds(strings[k].specifiedKey) :
                  ModuleHasKey(modules[l], id)

\* ---- two keys with one document identifier

\* C18: when two keys with different literals derive the same document
\* identifier, the base document keeps the first literal, and an entry a
\* run puts under that identifier into a language document is the
\* translation of the first literal.
C18_FirstLiteralWins ==
    JsonRan =>
        \A a, b \in DOMAIN strings :
            ( /\ a < b
              /\ HasWord(strings[a].key) /\ HasWord(strings[b].key)
              /\ DocName(strings[a].key) = DocName(strings[b].key)
              /\ Unquote(strings[a].literal) # Unquote(strings[b].literal) )
            => LET id == DocName(strings[a].key)
                   first == Unquote(strings[a].literal)
               IN /\ HasEntry(Parse(docs["base"]), id)
                  /\ EntryText(Parse(docs["base"]), id) = first
                  /\ \A l \in Lang :
                        ( /\ InSeq(l, cfg.addLanguages)
                          /\ HasEntry(Parse(docs[l]), id)
                          /\ ~( /\ pre_docs[l].valid
                                /\ HasEntry(pre_docs[l].entries, id)
                                /\ EntryText(pre_docs[l].entries, id)
                                      = EntryText(Parse(docs[l]), id) ) )
                        => EntryText(Parse(docs[l]), id) = Translated(first, l)

\* ---- main(): failures of a run

\* C20: whatever fails during a run, main() catches it, prints an error
\* message and completes.
C20_FailureReported ==
    /\ mn_pc = "caught" => mn_thrown # NoThrow
    /\ (mn_pc = "end" /\ mn_thrown # NoThrow) =>
          \E n \in DOMAIN mn_errors : mn_errors[n].message = mn_thrown.message

\* ---- the base document of templates with substitutions

\* The first record of the String Table that derives the identifier id and
\* is not skipped, or 0.
FirstOf(id) ==
    LET hits == { k \in DOMAIN strings :
                    HasWord(strings[k].key) /\ DocName(strings[k].key) = id }
    IN IF hits = { } THEN 0
       ELSE CHOOSE k \in hits : \A m \in hits : k <= m

\* The record of i`Total: ${count}`: the first call site with its key is
\* the one with the identifier count.
TotalRecords ==
    { k \in DOMAIN strings :
        /\ strings[k].key = << "T", "o", "t", "a", "l", ":", " ", "$", "{", "0", "}" >>
        /\ \E n \in DOMAIN sources :
              /\ sources[n] = TotalCount
              /\ \A m \in 1..(n - 1) :
                    Unquote(TemplateKey(sources[m].template)) # strings[k].key
        /\ FirstOf(DocName(strings[k].key)) = k }

C21_SummaryCountsWrites ==
    ( pc = "done" /\ (TsRan \/ JsonRan) ) =>
        /\ updatedFiles = Cardinality(writes)
        /\ runNo >= 2 => updatedFiles = 0

\* ---- the String Table during synchronization

\* C22: from the end of the scan to the end of the run the String Table is
\* what the scan made of the sources: no step of GenerateTS or GenerateJSON
\* (a step within a run) adds, removes or changes a record.
C22_StringTableReadOnly ==
    [][ runNo' = runNo => strings' = strings ]_vars

\* Both strategies have run over a table of two records, with requests
\* for two languages, and have written a module and a document.
C22_Witness ==
    /\ pc = "done" /\ cfg.ts /\ cfg.json /\ cfg.azure
    /\ Len(strings) = 2
    /\ \E a, b \in DOMAIN requests : requests[a].lang # requests[b].lang
    /\ \E l \in Lang, d \in DocIds :
         << "module", l >> \in writes /\ << "doc", d >> \in writes

\* ---- completeness of the String Table

\* C23: after the scan the String Table has a record under the canonical
\* key of every call site that was handed to track(), whatever the text of
\* the key is.
C23_EveryKeyRecorded ==
    sc_pc = "done" =>
        \A n \in sc_tracked :
            HasOwn(sc_strings, Unquote(TemplateKey(sc_nodes[n].template)))

\* ---- the presence check of the module strategy

\* The properties of a module whose name denotes the key, in single or in
\* double quotes.
EntriesFor(file, key) ==
    { n \in DOMAIN file.props :
        file.props[n].name \in { SingleQuote(key), DoubleQuote(key) } }

\* C24: a key counts as present in a module whatever the quoting of the
\* property that denotes it, so no module ever holds two entries for one
\* key of the String Table.
C24_NoSecondEntry ==
    \A l \in Lang, k \in DOMAIN strings :
        Cardinality(EntriesFor(modules[l], strings[k].key)) <= 1

\* ---- the grammar of a call-site annotation

\* The token @word a text begins with, or << >>.
TokenOf(t) ==
    LET ends == { n \in 2..Len(t) :
                    t[1] = "@" /\ \A m \in 2..n : IsWordChar(t[m]) }
    IN IF ends = { } THEN << >>
       ELSE SubSeq(t, 1, CHOOSE n \in ends : \A m \in ends : m <= n)

\* The text under 'full' in the notes of a record, or << >> without one.
FullOf(rec) ==
    IF << "full" >> \in NoteSlots(rec.notes)
    THEN NoteText(rec.notes, << "full" >>) ELSE << >>

\* C25: for a call site with one annotation, t being its text without the
\* delimiters and the surrounding whitespace: when t begins with a token
\* @word the token is the explicit key and the remainder is the note under
\* 'full'; otherwise all of t is the note under 'full'; without an
\* annotation, or with nothing left after the token, there is no 'full'.
C25_NoteGrammar ==
    ( sc_pc = "done" /\ Len(sc_nodes[1].comments) <= 1 ) =>
        /\ Len(sc_strings) = 1
        /\ LET rec == sc_strings[1]
               t == IF sc_nodes[1].comments = << >> THEN << >>
                    ELSE Note(sc_nodes[1].comments[1])
           IN /\ ~\E n \in DOMAIN rec.notes :
                   rec.notes[n].slot = << "full" >> /\ rec.notes[n].text = << >>
              /\ IF TokenOf(t) # << >>
                 THEN /\ rec.specifiedKey = TokenOf(t)
                      /\ TokenOf(t) \o FullOf(rec) = t
                 ELSE /\ rec.specifiedKey = << >>
                      /\ FullOf(rec) = t

\* The call site is followed by /** @k_1 n */: the record has the key
\* @k_1 and the note ' n'.
C25_Witness ==
    /\ sc_pc = "done"
    /\ sc_nodes[1].comments =
          << << "/", "*", "*", " ", "@", "k", "_", "1", " ", "n", " ", "*", "/" >> >>
    /\ Len(sc_strings) = 1
    /\ sc_strings[1].specifiedKey = << "@", "k", "_", "1" >>
    /\ FullOf(sc_strings[1]) = << " ", "n" >>

\* The arguments of the forms --name, --name:value and --name=value.
IsSwitchArg(arg) ==
    /\ Len(arg) >= 3 /\ arg[1] = "-" /\ arg[2] = "-"
    /\ arg[3] \notin { "=", ":" }

InputArgs(args) == SelectSeq(args, LAMBDA a : ~IsSwitchArg(a))

\* The values given to the switch name, in argument order.
GivenValues(args, name) ==
    LET given == SelectSeq(args, LAMBDA a : IsSwitchArg(a) /\ MatchArg(a).name = name)
    IN [ n \in DOMAIN given |-> MatchArg(given[n]).value ]

SwitchNames == { << "a" >>, << "b" >>, << "c" >>, << "constructor" >> }

\* C26: parseArgs returns for every command line; every argument of the
\* forms --name, --name:value and --name=value adds its value (undefined
\* when none is given) to the list of its switch in argument order, and every
\* other argument is an input in argument order; switch(name) is undefined
\* for a switch never given, the value of a switch given once, and raises
\* for a switch given more than once.
C26_CommandLine ==
    /\ pa_pc # "threw"
    /\ pa_pc = "done" =>
        /\ pa_inputs = InputArgs(pa_args)
        /\ \A name \in SwitchNames :
            LET given == GivenValues(pa_args, name)
            IN /\ HasSwitch(pa_switches, name) <=> given # << >>
               /\ given # << >> => SwitchValues(pa_switches, name) = given
               /\ Switch(pa_switches, name) =
                    IF given = << >> THEN [ kind |-> "undefined", value |-> Undefined ]
                    ELSE IF Len(given) = 1 THEN [ kind |-> "value", value |-> given[1] ]
                    ELSE [ kind |-> "throw", value |-> Undefined ]

=============================================================================
